---- MODULE Spec2Model ----
(***************************************************************************)
(* Model of the OOXML package partitioning engine (excel_splitter.py) and  *)
(* of the paired conversion / reassembly pipeline                          *)
(* (convert_parts_combine.py, service/lool_client.py).                     *)
(*                                                                         *)
(* A part path is the sequence of its "/"-separated segments               *)
(* ("xl/workbook.xml" is <<"xl", "workbook.xml">>); the empty sequence is  *)
(* Python's None / "".  Sheet names and formulas are sequences of          *)
(* one-character strings, so that the formula scanner works on characters. *)
(***************************************************************************)
EXTENDS Integers, Sequences, FiniteSets, TLC

VARIABLES
    pkg,          \* the source archive (immutable input of split_xlsx)
    max_sheets,   \* split_xlsx's max_sheets argument
    pc,           \* position of split_xlsx: "start", "chunks", "done", "error"
    workbook_path, \* split_xlsx's local `workbook_path`
    sheets,       \* split_xlsx's local `sheets` (result of load_sheet_infos)
    part_idx,     \* the chunk loop's part_idx (number of the next chunk)
    outputs,      \* split_xlsx's `outputs`: the chunk archives written so far
    sheets_dir,   \* dest_dir on disk: file name -> chunk archive
    stem,         \* input_path.stem, as a sequence of characters
    service,      \* the rendering service: "unreliable", "failing" or "exact"
    source,       \* where the conversion takes its files from
    retry_attempts, \* LoolClient.retry_attempts
    cpc,          \* position of convert_sheets_and_combine / convert_all_sheets
    sheet_excels, \* convert_sheets_and_combine's `sheet_excels` (file names)
    idx,          \* its loop index (1-based)
    attempt,      \* convert_all_sheets' `attempt`
    last_exception, \* convert_all_sheets' `last_exception`
    events,       \* what the current convert_all_sheets call did, in order
    result,       \* how the last convert_all_sheets call ended
    merger,       \* the pages of the combined PdfWriter
    pdf_dir,      \* pdf_dir on disk: file name -> pages of the per-file PDF
    combined,     \* the pages of combined_pdf on disk, None before it exists
    bpc,          \* position of batch_convert_excel and the functions it calls
    deep,         \* batch_convert_excel's `deep` argument
    MAX_SHEETS_PER_SPLIT, \* config.MAX_SHEETS_PER_SPLIT
    openpyxl,     \* whether `from openpyxl import ...` succeeds
    chunk_start,  \* _split_excel_chunked's loop variable (0-based)
    output_dir,   \* split/<excel_name> on disk: file name -> content
    all_sheet_files, \* _split_excel_chunked's `all_sheet_files`
    individual_pdfs, \* batch_convert_excel's `individual_pdfs`
    calls,        \* the convert_all_sheets calls batch_convert made, in order
    sheet_idx,    \* batch_convert_excel's loop variable `idx` (1-based)
    combined_path, \* the pages of combined_<excel_name>.pdf, None before it exists
    dpc,          \* position of _convert_excel_document
    LOOL_ENABLED, \* config.LOOL_ENABLED
    LOOL_FALLBACK_TO_LOCAL, \* config.LOOL_FALLBACK_TO_LOCAL
    last_exc,     \* _convert_excel_document's `last_exc`
    pdf_path,     \* its `pdf_path`: None, or the PDF it points to
    engines,      \* the rendering engines it invoked, in order
    request,      \* the number of the conversion request being served
    LATEST_DEBUG_ARTIFACTS, \* excel_to_pdf's globals _LATEST_DEBUG_*
    base_dir,     \* SPLIT_OUTPUT_ROOT/<stem> on disk: None, or who made it
    debug_dir,    \* what get_latest_debug_artifacts_dir gave the request
    opc,          \* position of convert_office_to_pdf
    ext,          \* the extension of its input_path
    office_outdir, \* its output_dir argument: None, or a directory name
    office_result, \* the pair it returned, None before
    office_files  \* the files convert_office_to_pdf left on disk

svars == <<pkg, max_sheets, pc, workbook_path, sheets, part_idx, outputs,
           sheets_dir, stem>>

cvars == <<service, source, retry_attempts, cpc, sheet_excels, idx, attempt,
           last_exception, events, result, merger, pdf_dir, combined>>

bvars == <<bpc, deep, MAX_SHEETS_PER_SPLIT, openpyxl, chunk_start, output_dir,
           all_sheet_files, individual_pdfs, calls, sheet_idx, combined_path>>

dvars == <<dpc, LOOL_ENABLED, LOOL_FALLBACK_TO_LOCAL, last_exc, pdf_path,
           engines>>

rvars == <<request, LATEST_DEBUG_ARTIFACTS, base_dir, debug_dir>>

fvars == <<opc, ext, office_outdir, office_result, office_files>>

ovars == <<bvars, dvars, rvars, fvars>>

vars == <<svars, cvars, ovars>>

(***************************************************************************)
(* Bounds of the model.                                                    *)
(***************************************************************************)
MaxSheets == 4
MaxPerChunk == 3
MaxAttempts == 3
MaxParts == 100

(***************************************************************************)
(* Small helpers on sequences.                                             *)
(***************************************************************************)
None == <<>>

Range(s) == {s[i] : i \in 1..Len(s)}

Min(a, b) == IF a < b THEN a ELSE b

RECURSIVE Flatten(_)
Flatten(ss) == IF ss = <<>> THEN <<>> ELSE Head(ss) \o Flatten(Tail(ss))

Front(s) == SubSeq(s, 1, Len(s) - 1)

Last(s) == s[Len(s)]

\* The names of a sequence of sheets (SheetInfo or sheet elements).
NamesOf(infos) == [j \in 1..Len(infos) |-> infos[j].name]

(***************************************************************************)
(* Part paths of the packages of the model.                                *)
(***************************************************************************)
P_CONTENT_TYPES == <<"[Content_Types].xml">>
P_ROOT_RELS == <<"_rels", ".rels">>
P_WORKBOOK == <<"xl", "workbook.xml">>
P_ALT_WORKBOOK == <<"xl", "book.xml">>
P_APP == <<"docProps", "app.xml">>
P_CORE == <<"docProps", "core.xml">>
P_STYLES == <<"xl", "styles.xml">>
P_CALC_CHAIN == <<"xl", "calcChain.xml">>
P_EXT_LINK == <<"xl", "externalLinks", "externalLink1.xml">>
P_DRAWING == <<"xl", "drawings", "drawing1.xml">>
P_DRAWING_MISSING == <<"xl", "drawings", "drawing2.xml">>
P_IMAGE == <<"xl", "media", "image1.png">>
P_PIVOT_TABLE == <<"xl", "pivotTables", "pivotTable1.xml">>
P_PIVOT_CACHE == <<"xl", "pivotCache", "pivotCacheDefinition1.xml">>

DigitChar(i) == <<"0", "1", "2", "3", "4", "5", "6", "7", "8", "9">>[i + 1]

\* str(i) for i >= 0, as a string and as a sequence of characters.
RECURSIVE Str(_)
Str(i) == IF i < 10 THEN DigitChar(i) ELSE Str(i \div 10) \o DigitChar(i % 10)

RECURSIVE Digits(_)
Digits(i) ==
    IF i < 10 THEN <<DigitChar(i)>>
    ELSE Append(Digits(i \div 10), DigitChar(i % 10))

SheetFile(i) == "sheet" \o Str(i) \o ".xml"

\* Sheet kinds are the directories Excel stores sheet parts in.
SheetPart(kind, i) == <<"xl", kind, SheetFile(i)>>

\* The workbook-relative Target of a sheet relationship.
SheetTarget(kind, i) == [abs |-> FALSE, uri |-> FALSE, segs |-> <<kind, SheetFile(i)>>]

RId(i) == "rId" \o Str(i)

(***************************************************************************)
(* Character-level facts about the segment names of the model: s starts    *)
(* with / ends with / contains t.  Equal strings always qualify; the pairs *)
(* list the proper cases among the names that occur in the model.          *)
(***************************************************************************)
ProperPrefixes == {<<"pivotCacheDefinition1.xml", "pivotCache">>}

StartsWith(s, t) == s = t \/ <<s, t>> \in ProperPrefixes

ProperSuffixes == {}

EndsWith(s, t) == s = t \/ <<s, t>> \in ProperSuffixes

ProperInfixes == {<<"pivotCacheDefinition1.xml", "pivotCache">>}

Contains(s, t) == s = t \/ <<s, t>> \in ProperInfixes

(***************************************************************************)
(* excel_splitter.py: path helpers.                                        *)
(***************************************************************************)
\* posixpath.normpath on a relative path given by its segments.
RECURSIVE NormSegs(_, _)
NormSegs(todo, done) ==
    IF todo = <<>> THEN done
    ELSE LET s == Head(todo)
         IN IF s = "." THEN NormSegs(Tail(todo), done)
            ELSE IF s = ".." /\ done # <<>> /\ Last(done) # ".."
                 THEN NormSegs(Tail(todo), Front(done))
                 ELSE NormSegs(Tail(todo), Append(done, s))

normpath(segs) == NormSegs(segs, <<>>)

\* A relationship Target is [abs, uri, segs]: abs when it starts with "/",
\* uri when it holds "://", segs its path segments (fragment removed).
\* Lines 92-97: the resolved path.
resolve_target(base_path, target) ==
    IF target.abs THEN target.segs
    ELSE normpath((IF base_path = P_ROOT_RELS THEN <<>> ELSE Front(base_path))
                      \o target.segs)

\* Lines 98-102.
checked_resolved(resolved) ==
    IF resolved # <<>> /\ Head(resolved) = ".." THEN None
    ELSE IF resolved # <<>> /\ Head(resolved) = "." THEN Tail(resolved)
    ELSE resolved

normalize_target_path(base_path, target) ==
    IF target.segs = <<>> \/ target.uri THEN None
    ELSE checked_resolved(resolve_target(base_path, target))

relationship_part_path(part_path) ==
    Front(part_path) \o <<"_rels", Last(part_path) \o ".rels">>

SKIP_PARTS == {<<"xl", "calcChain.xml">>, <<"xl", "_rels", "calcChain.xml.rels">>}

\* SKIP_PREFIXES as (directory segments, prefix of the next segment).
SKIP_PREFIXES == {
    <<<<"xl">>, "externalLinks">>,
    <<<<"xl", "_rels">>, "externalLinks">>,
    <<<<"xl">>, "pivotCache">>,
    <<<<"xl">>, "slicerCaches">>,
    <<<<"xl">>, "timelineCache">>}

PathStartsWith(path, prefix) ==
    LET dir == prefix[1]
    IN /\ Len(path) > Len(dir)
       /\ SubSeq(path, 1, Len(dir)) = dir
       /\ StartsWith(path[Len(dir) + 1], prefix[2])

should_skip_part(part_path) ==
    \/ part_path \in SKIP_PARTS
    \/ \E prefix \in SKIP_PREFIXES : PathStartsWith(part_path, prefix)

\* written holds "/" + key; a manifest PartName may or may not start with "/".
Slashed(key) == [slash |-> TRUE, segs |-> key]

\* st is the chunk under construction: entries (insertion-ordered keys),
\* written, seen, rels (the rewritten relationship parts), raw (keys whose
\* payload is the source's bytes), err (an exception was raised).
write_entry(st, path, is_raw) ==
    [st EXCEPT !.entries = IF path \in Range(@) THEN @ ELSE Append(@, path),
               !.written = @ \cup {Slashed(path)},
               !.raw = IF is_raw THEN @ \cup {path} ELSE @ \ {path}]

(***************************************************************************)
(* excel_splitter.py: copy_part_tree.  A relationship is [Id, Target,      *)
(* TargetMode]; a relationship part is the sequence of its relationships.  *)
(***************************************************************************)
\* Lines 166-170: keep_rel for a relationship that is not External.
keep_internal(normalized, src_parts) ==
    normalized = None
        \/ (~should_skip_part(normalized) /\ normalized \in src_parts)

\* Lines 155-173: whether the relationship is copied to the rewritten part.
keep_rel(part, rel, src_parts) ==
    rel.TargetMode = "External"
        \/ keep_internal(normalize_target_path(part, rel.Target), src_parts)

\* Lines 172-175: whether the walk recurses into the relationship's target.
follow_internal(normalized, src_parts) ==
    normalized # None /\ keep_internal(normalized, src_parts)

follow_rel(part, rel, src_parts) ==
    rel.TargetMode # "External"
        /\ follow_internal(normalize_target_path(part, rel.Target), src_parts)

normalized_targets(base_path, rels) ==
    [i \in 1..Len(rels) |-> normalize_target_path(base_path, rels[i].Target)]

\* next_targets, in order.
next_targets(part, rels, src_parts) ==
    normalized_targets(part,
        SelectSeq(rels, LAMBDA r : follow_rel(part, r, src_parts)))

\* Lines 177-179: the rewritten relationship part is written unless empty.
write_rels(st, rels_path, part, new_root) ==
    IF new_root # <<>>
    THEN [write_entry(st, rels_path, FALSE) EXCEPT
             !.rels = (rels_path :> [base |-> part, rels |-> new_root]) @@ @,
             !.seen = @ \cup {rels_path}]
    ELSE st

\* The guard with the visited set holding relationship parts only.
visited_by_rels(part, st) == relationship_part_path(part) \in st.seen

\* Line 136: `part in seen`.
visited(part, st) == part \in st.seen

RECURSIVE copy_part_tree(_, _, _)
RECURSIVE copy_rels(_, _, _, _)
RECURSIVE copy_targets(_, _, _)
\* Lines 135-142.
copy_part_tree(part, src, st) ==
    IF st.err THEN st
    ELSE IF should_skip_part(part) \/ visited(part, st) THEN st
    ELSE IF part \notin src.parts THEN [st EXCEPT !.err = TRUE]
    ELSE copy_rels(part, relationship_part_path(part), src,
                   write_entry([st EXCEPT !.seen = @ \cup {part},
                                          !.copies = Append(@, part)],
                               part, TRUE))

\* Lines 144-182.
copy_rels(part, rels_path, src, st) ==
    IF rels_path \notin src.parts \/ rels_path \in st.seen THEN st
    ELSE copy_targets(
             next_targets(part, src.rels[rels_path], src.parts), src,
             write_rels(st, rels_path, part,
                        SelectSeq(src.rels[rels_path],
                                  LAMBDA r : keep_rel(part, r, src.parts))))

\* The loops `for target in ...: copy_part_tree(target, ...)`.
copy_targets(targets, src, st) ==
    IF targets = <<>> THEN st
    ELSE copy_targets(Tail(targets), src, copy_part_tree(Head(targets), src, st))

(***************************************************************************)
(* excel_splitter.py: extract_sheet_references.  The pattern of line 197   *)
(* is either a quoted name (a quote, then characters other than a quote    *)
(* or doubled quotes, then a quote) or a bare name (a non-empty run of     *)
(* letters, digits, "_", backslash, "." and space), followed by "!".       *)
(* re.findall matches it from left to right, without overlap.              *)
(***************************************************************************)
BareChars ==
    {"A", "B", "C", "D", "E", "F", "G", "H", "I", "J", "K", "L", "M",
     "N", "O", "P", "Q", "R", "S", "T", "U", "V", "W", "X", "Y", "Z",
     "a", "b", "c", "d", "e", "f", "g", "h", "i", "j", "k", "l", "m",
     "n", "o", "p", "q", "r", "s", "t", "u", "v", "w", "x", "y", "z",
     "0", "1", "2", "3", "4", "5", "6", "7", "8", "9",
     "_", "\\", ".", " "}

\* The index of the quote closing a quoted name whose content starts at j
\* (a doubled quote is content), or 0 when there is none.
RECURSIVE QuoteClose(_, _)
QuoteClose(f, j) ==
    IF j > Len(f) THEN 0
    ELSE IF f[j] # "'" THEN QuoteClose(f, j + 1)
    ELSE IF j + 1 <= Len(f) /\ f[j + 1] = "'" THEN QuoteClose(f, j + 2)
    ELSE j

\* The last index of the maximal run of bare-name characters starting at i.
RECURSIVE BareEnd(_, _)
BareEnd(f, i) ==
    IF i + 1 <= Len(f) /\ f[i + 1] \in BareChars THEN BareEnd(f, i + 1) ELSE i

\* str.replace("''", "'")
RECURSIVE UnescapeQuotes(_)
UnescapeQuotes(s) ==
    IF s = <<>> THEN <<>>
    ELSE IF Len(s) >= 2 /\ s[1] = "'" /\ s[2] = "'"
         THEN <<"'">> \o UnescapeQuotes(SubSeq(s, 3, Len(s)))
         ELSE <<s[1]>> \o UnescapeQuotes(Tail(s))

\* str.rstrip()
RECURSIVE rstrip(_)
rstrip(s) == IF s # <<>> /\ Last(s) = " " THEN rstrip(Front(s)) ELSE s

NonEmptyName(name) == IF name # <<>> THEN {name} ELSE {}

\* Lines 199-204: the name a match contributes, as a set of zero or one names.
CandidateName(candidate) ==
    IF candidate = <<>> THEN {}
    ELSE NonEmptyName(rstrip(UnescapeQuotes(candidate)))

RECURSIVE ScanRefs(_, _)
RECURSIVE ScanQuoted(_, _, _)
RECURSIVE ScanBare(_, _, _)
ScanRefs(f, i) ==
    IF i > Len(f) THEN {}
    ELSE IF f[i] = "'" THEN ScanQuoted(f, i, QuoteClose(f, i + 1))
    ELSE IF f[i] \in BareChars THEN ScanBare(f, i, BareEnd(f, i))
    ELSE ScanRefs(f, i + 1)

ScanQuoted(f, i, close) ==
    IF close # 0 /\ close + 1 <= Len(f) /\ f[close + 1] = "!"
    THEN CandidateName(SubSeq(f, i + 1, close - 1)) \cup ScanRefs(f, close + 2)
    ELSE ScanRefs(f, i + 1)

ScanBare(f, i, e) ==
    IF e + 1 <= Len(f) /\ f[e + 1] = "!"
    THEN CandidateName(SubSeq(f, i, e)) \cup ScanRefs(f, e + 2)
    ELSE ScanRefs(f, i + 1)

\* str.replace("'", "''")
RECURSIVE EscapeQuotes(_)
EscapeQuotes(s) ==
    IF s = <<>> THEN <<>>
    ELSE (IF s[1] = "'" THEN <<"'", "'">> ELSE <<s[1]>>) \o EscapeQuotes(Tail(s))

\* The markers of a sheet name in a formula: [unquoted, quoted].
sheet_markers(name) ==
    [unquoted |-> name \o <<"!">>,
     quoted |-> <<"'">> \o EscapeQuotes(name) \o <<"'", "!">>]

extract_sheet_references(formula) ==
    IF "!" \notin Range(formula) THEN {} ELSE ScanRefs(formula, 1)

(***************************************************************************)
(* excel_splitter.py: the rewriting of the workbook descriptor.            *)
(* A workbook is [hasSheets, sheets, hasNames, names]: a sheet entry is    *)
(* [name, rid, sheetId, tabSelected] (rid "" when the attribute is         *)
(* missing), a defined name is [name, localSheetId, text], localSheetId    *)
(* [given, int, value] (given: the attribute is there; int: it parses).    *)
(* A SheetInfo is [name, rid, target, index].                              *)
(***************************************************************************)
\* Line 220: whether old_idx is a key of index_map.
IndexMapped(keep_infos, old_idx) ==
    \E i \in 1..Len(keep_infos) : keep_infos[i].index = old_idx

\* Line 220: index_map[old_idx] (a dict comprehension keeps the last value
\* of a repeated key).
\* A rewriting that leaves localSheetId as it was.
index_map_same(keep_infos, old_idx) == old_idx

index_map(keep_infos, old_idx) ==
    (CHOOSE i \in 1..Len(keep_infos) :
        /\ keep_infos[i].index = old_idx
        /\ \A j \in 1..Len(keep_infos) :
               keep_infos[j].index = old_idx => j <= i) - 1

\* Lines 249-257: the name passes the local-scope test.
local_scope_kept(localSheetId, keep_infos) ==
    \/ ~localSheetId.given
    \/ localSheetId.int /\ IndexMapped(keep_infos, localSheetId.value)

\* A test that is satisfied by one referenced sheet of the chunk.
sheet_refs_any(sheet_refs, keep_name_set) ==
    ~(sheet_refs # {} /\ sheet_refs \cap keep_name_set = {})

\* Lines 260-263: the name passes the sheet-reference test.
sheet_refs_kept(sheet_refs, keep_name_set) ==
    ~(sheet_refs # {} /\ ~(sheet_refs \subseteq keep_name_set))

\* Lines 245-263: whether the defined name stays.
keep_defined_name(name_el, keep_infos) ==
    /\ local_scope_kept(name_el.localSheetId, keep_infos)
    /\ sheet_refs_kept(extract_sheet_references(name_el.text),
                       {keep_infos[i].name : i \in 1..Len(keep_infos)})

\* Line 258: the surviving name with its localSheetId rewritten.
remap_defined_name(name_el, keep_infos) ==
    IF name_el.localSheetId.given
    THEN [name_el EXCEPT !.localSheetId.value =
              index_map(keep_infos, name_el.localSheetId.value)]
    ELSE name_el

\* Lines 231-236: sheetId and tabSelected of the sheets that stay.
renumber_sheets(kept) ==
    [i \in 1..Len(kept) |->
        [kept[i] EXCEPT !.sheetId = i, !.tabSelected = (i = 1)]]

\* Lines 243-266.
prune_defined_names(names, keep_infos) ==
    [i \in 1..Len(names) |-> remap_defined_name(names[i], keep_infos)]

\* Lines 265-266: an empty definedNames element is removed.
pruned_workbook(wb, kept_sheets, kept_names) ==
    [hasSheets |-> wb.hasSheets,
     sheets |-> kept_sheets,
     hasNames |-> wb.hasNames /\ kept_names # <<>>,
     names |-> kept_names]

\* A rewriting that leaves every sheet element in place.
prune_workbook_xml_all(wb, keep_infos) ==
    pruned_workbook(
        wb,
        renumber_sheets(wb.sheets),
        prune_defined_names(
            SelectSeq(wb.names, LAMBDA n : keep_defined_name(n, keep_infos)),
            keep_infos))

prune_workbook_xml(wb, keep_infos) ==
    pruned_workbook(
        wb,
        renumber_sheets(
            SelectSeq(wb.sheets, LAMBDA sh :
                sh.rid \in {keep_infos[i].rid : i \in 1..Len(keep_infos)})),
        prune_defined_names(
            SelectSeq(wb.names, LAMBDA n : keep_defined_name(n, keep_infos)),
            keep_infos))

(***************************************************************************)
(* excel_splitter.py: prune_workbook_rels.  The substring tests are on the *)
(* raw Target: "d/" in target holds when a segment before the last ends    *)
(* with d.                                                                 *)
(***************************************************************************)
TargetHasDir(target, d) ==
    \E i \in 1..(Len(target.segs) - 1) : EndsWith(target.segs[i], d)

TargetContains(target, t) ==
    \E i \in 1..Len(target.segs) : Contains(target.segs[i], t)

\* Lines 303-305.
IsSheetPath(normalized) ==
    \/ PathStartsWith(normalized, <<<<"xl">>, "worksheets">>)
    \/ PathStartsWith(normalized, <<<<"xl">>, "chartsheets">>)

\* Lines 290-299, given the normalized target.
keep_workbook_target(rel, normalized, keep_rid_set) ==
    /\ rel.TargetMode # "External"
    /\ ~(normalized # None /\ should_skip_part(normalized))
    /\ ~(TargetHasDir(rel.Target, "externalLinks")
            \/ TargetContains(rel.Target, "pivotCache"))
    /\ ~(normalized # None /\ EndsWith(Last(normalized), "calcChain.xml"))
    /\ ~((TargetHasDir(rel.Target, "worksheets")
            \/ TargetHasDir(rel.Target, "chartsheets"))
         /\ rel.Id \notin keep_rid_set)

\* A pruning that takes every sheet relationship for one of a removed sheet.
keep_workbook_rel_no_sheets(rel, wb_path, keep_rid_set) ==
    keep_workbook_target(rel, normalize_target_path(wb_path, rel.Target), {})

\* Lines 283-301: whether the relationship is copied to the pruned part.
keep_workbook_rel(rel, wb_path, keep_rid_set) ==
    keep_workbook_target(rel, normalize_target_path(wb_path, rel.Target),
                         keep_rid_set)

\* Lines 303-306: whether the kept relationship's target is an extra target.
extra_target(normalized) == normalized # None /\ ~IsSheetPath(normalized)

\* [rels, targets]: the pruned part and extra_targets.
pruned_rels(new_root, wb_path) ==
    [rels |-> new_root,
     targets |-> normalized_targets(wb_path,
                     SelectSeq(new_root, LAMBDA r :
                         extra_target(normalize_target_path(wb_path,
                                                            r.Target))))]

prune_workbook_rels(workbook_rels, wb_path, keep_rids) ==
    pruned_rels(
        SelectSeq(workbook_rels,
                  LAMBDA r : keep_workbook_rel(r, wb_path, Range(keep_rids))),
        wb_path)

(***************************************************************************)
(* excel_splitter.py: the manifest, the extended properties, the loaders.  *)
(* The manifest is the sequence of its Override entries                    *)
(* [PartName, ContentType], PartName being [slash, segs].                  *)
(***************************************************************************)
\* A pruning that compares PartName as written, without normalising its
\* leading "/".
prune_content_types_raw(content_types, written_parts) ==
    SelectSeq(content_types, LAMBDA override :
        override.PartName \in written_parts)

prune_content_types(content_types, written_parts) ==
    SelectSeq(content_types, LAMBDA override :
        ~(override.PartName.segs # <<>>
            /\ Slashed(override.PartName.segs) \notin written_parts))

\* app.xml is [worksheets, titles]: the "Worksheets" count of HeadingPairs
\* and the TitlesOfParts vector.
update_docprops_app(app, sheet_names) ==
    IF sheet_names = <<>> THEN app
    ELSE [worksheets |-> Len(sheet_names), titles |-> sheet_names]

WORKBOOK_CONTENT_TYPE ==
    "application/vnd.openxmlformats-officedocument.spreadsheetml.sheet.main+xml"

FirstPartName(declared) ==
    IF declared = <<>> THEN None ELSE declared[1].PartName.segs

\* Returns the workbook path, or None for the ValueError of line 377.
load_workbook_path(content_types) ==
    FirstPartName(SelectSeq(content_types, LAMBDA override :
        /\ override.ContentType = WORKBOOK_CONTENT_TYPE
        /\ override.PartName.segs # <<>>))

LastTarget(hits, wb_path) ==
    IF hits = <<>> THEN None
    ELSE normalize_target_path(wb_path, Last(hits).Target)

\* Lines 388-394 and 408: rid_to_target.get(rid); a later relationship
\* replaces an earlier one of the same Id.
rid_to_target(workbook_rels, wb_path, rid) ==
    LastTarget(SelectSeq(workbook_rels, LAMBDA r :
                   /\ r.Id = rid /\ r.Id # ""
                   /\ normalize_target_path(wb_path, r.Target) # None),
               wb_path)

\* Lines 403-411: the SheetInfo of the sheet element at position i (1-based).
sheet_info(wb, wb_path, workbook_rels, i) ==
    [name |-> wb.sheets[i].name,
     rid |-> wb.sheets[i].rid,
     target |-> rid_to_target(workbook_rels, wb_path, wb.sheets[i].rid),
     index |-> i - 1]

sheet_infos(wb, wb_path, workbook_rels, with_rid) ==
    [k \in 1..Len(with_rid) |->
        sheet_info(wb, wb_path, workbook_rels, with_rid[k])]

\* Lines 409-415: the ValueErrors.
checked_infos(infos) ==
    IF (\E k \in 1..Len(infos) : infos[k].target = None) \/ infos = <<>>
    THEN [err |-> TRUE, sheets |-> <<>>]
    ELSE [err |-> FALSE, sheets |-> infos]

\* Returns [err, sheets]; err for each ValueError.
load_sheet_infos(wb, wb_path, workbook_rels) ==
    IF ~wb.hasSheets THEN [err |-> TRUE, sheets |-> <<>>]
    ELSE checked_infos(
             sheet_infos(wb, wb_path, workbook_rels,
                 SelectSeq([i \in 1..Len(wb.sheets) |-> i],
                           LAMBDA i : wb.sheets[i].rid # "")))

\* Line 432.
root_target(normalized) == normalized # None /\ normalized # P_WORKBOOK

\* Returns [rels, targets].
load_root_relationships(root_rels) ==
    [rels |-> root_rels,
     targets |-> normalized_targets(P_ROOT_RELS,
                     SelectSeq(root_rels, LAMBDA r :
                         root_target(normalize_target_path(P_ROOT_RELS,
                                                           r.Target))))]

\* Python's range(start, stop, step) for step > 0, as a sequence.
py_range(start, stop, step) ==
    [c \in 1..((stop - start + step - 1) \div step) |-> start + (c - 1) * step]

\* The slices iterable[idx : idx + size] the generator yields, for idx
\* (0-based) running over idxs.
slices(iterable, size, idxs) ==
    [c \in 1..Len(idxs) |->
        SubSeq(iterable, idxs[c] + 1, Min(idxs[c] + size, Len(iterable)))]

\* A generator whose range starts one element late.
chunked_late(iterable, size) ==
    slices(iterable, size, py_range(1, Len(iterable), size))

chunked(iterable, size) ==
    slices(iterable, size, py_range(0, Len(iterable), size))

(***************************************************************************)
(* excel_splitter.py: the body of split_xlsx's chunk loop (lines 489-522), *)
(* stage by stage.  The result has err set when a copy_part_tree raised.   *)
(***************************************************************************)
EmptyChunk ==
    [entries |-> <<>>, written |-> {}, seen |-> {}, rels |-> <<>>, raw |-> {},
     copies |-> <<>>, err |-> FALSE]

\* Lines 493-497, given the result of load_root_relationships.
copy_root(src, root) ==
    copy_targets(root.targets, src,
        [write_entry(EmptyChunk, P_ROOT_RELS, FALSE) EXCEPT
            !.rels = (P_ROOT_RELS :> [base |-> P_ROOT_RELS, rels |-> root.rels])
                         @@ @])

\* Lines 485-497: root_rels_bytes is None when the archive has no _rels/.rels.
stage_root(src) ==
    IF P_ROOT_RELS \in src.parts
    THEN copy_root(src, load_root_relationships(src.rels[P_ROOT_RELS]))
    ELSE EmptyChunk

\* Lines 505-511, given the result of prune_workbook_rels.
copy_workbook_rels(src, wb_path, pruned, st) ==
    copy_targets(pruned.targets, src,
        [write_entry(st, relationship_part_path(wb_path), FALSE) EXCEPT
            !.rels = (relationship_part_path(wb_path) :>
                         [base |-> wb_path, rels |-> pruned.rels]) @@ @])

\* Lines 499-511.
stage_workbook(src, wb_path, chunk, st) ==
    copy_workbook_rels(src, wb_path,
        prune_workbook_rels(src.rels[relationship_part_path(wb_path)], wb_path,
                            [i \in 1..Len(chunk) |-> chunk[i].rid]),
        write_entry(st, wb_path, FALSE))

\* Lines 513-514.
stage_sheets(src, chunk, st) ==
    copy_targets([i \in 1..Len(chunk) |-> chunk[i].target], src, st)

\* Lines 516-522, and the archive as it is written by lines 528-535:
\* st is the chunk before [Content_Types].xml is added.
finish_chunk(src, wb_path, chunk, st) ==
    [entries |-> write_entry(st, P_CONTENT_TYPES, FALSE).entries,
     written |-> write_entry(st, P_CONTENT_TYPES, FALSE).written,
     seen |-> st.seen,
     rels |-> st.rels,
     raw |-> st.raw,
     copies |-> st.copies,
     err |-> st.err,
     chunk |-> chunk,
     wb_path |-> wb_path,
     workbook |-> IF wb_path \in st.raw THEN src.wb
                  ELSE prune_workbook_xml(src.wb, chunk),
     app |-> IF P_APP \in Range(st.entries)
             THEN update_docprops_app(src.app,
                                      [i \in 1..Len(chunk) |-> chunk[i].name])
             ELSE src.app,
     content_types |-> prune_content_types(src.content_types, st.written)]

build_chunk(src, wb_path, chunk) ==
    finish_chunk(src, wb_path, chunk,
        stage_sheets(src, chunk,
            stage_workbook(src, wb_path, chunk, stage_root(src))))

(***************************************************************************)
(* The source packages of the model: a workbook of n sheets with a         *)
(* drawing, an image, a pivot table, styles, a calculation chain, an       *)
(* external link and extended properties (whose manifest entry is written  *)
(* without a leading "/"), varied by the features                          *)
(*   altWb     the manifest declares the workbook at xl/book.xml           *)
(*   rootSkip  _rels/.rels holds a relationship to xl/calcChain.xml        *)
(*   extLink   sheet 1 has an external hyperlink relationship              *)
(*   missing   sheet 1 has a relationship to a part the archive lacks      *)
(* and by the kind (directory) of the last sheet.                          *)
(***************************************************************************)
Features == {"altWb", "rootSkip", "extLink", "missing"}

SheetKinds == {"worksheets", "chartsheets", "dialogsheets"}

SheetName(i) == IF i = 2 THEN <<"O", "'", "2">> ELSE <<"S">> \o Digits(i)

Rel(id, segs) ==
    [Id |-> id, TargetMode |-> "",
     Target |-> [abs |-> FALSE, uri |-> FALSE, segs |-> segs]]

ExternalRel(id) ==
    [Id |-> id, TargetMode |-> "External",
     Target |-> [abs |-> FALSE, uri |-> TRUE, segs |-> <<"example.com", "page">>]]

KindOf(n, last_kind, i) == IF i = n THEN last_kind ELSE "worksheets"

PackageWorkbookPath(feat) ==
    IF "altWb" \in feat THEN P_ALT_WORKBOOK ELSE P_WORKBOOK

RootRels(feat) ==
    <<Rel("rId1", PackageWorkbookPath(feat)), Rel("rId2", P_APP)>>
        \o (IF "rootSkip" \in feat THEN <<Rel("rId3", P_CALC_CHAIN)>> ELSE <<>>)

WorkbookRels(n, last_kind) ==
    [i \in 1..n |->
        [Id |-> RId(i), TargetMode |-> "",
         Target |-> SheetTarget(KindOf(n, last_kind, i), i)]]
        \o <<Rel("rIdStyles", <<"styles.xml">>),
             Rel("rIdCalcChain", <<"calcChain.xml">>),
             Rel("rIdExternalLink", <<"externalLinks", "externalLink1.xml">>)>>

Sheet1Rels(feat) ==
    <<Rel("rId1", <<"..", "drawings", "drawing1.xml">>),
      Rel("rId2", <<"..", "pivotTables", "pivotTable1.xml">>)>>
        \o (IF "extLink" \in feat THEN <<ExternalRel("rId3")>> ELSE <<>>)
        \o (IF "missing" \in feat
            THEN <<Rel("rId4", <<"..", "drawings", "drawing2.xml">>)>>
            ELSE <<>>)

PackageRels(n, last_kind, feat) ==
    (relationship_part_path(SheetPart(KindOf(n, last_kind, 1), 1))
            :> Sheet1Rels(feat))
        @@ (relationship_part_path(SheetPart(KindOf(n, last_kind, n), n))
            :> <<Rel("rId1", <<"..", "drawings", "drawing1.xml">>)>>)
        @@ (P_ROOT_RELS :> RootRels(feat))
        @@ (relationship_part_path(PackageWorkbookPath(feat))
            :> WorkbookRels(n, last_kind))
        @@ (relationship_part_path(P_DRAWING)
            :> <<Rel("rId1", <<"..", "media", "image1.png">>)>>)
        @@ (relationship_part_path(P_PIVOT_TABLE)
            :> <<Rel("rId1", <<"..", "pivotCache", "pivotCacheDefinition1.xml">>)>>)

NoLocalSheetId == [given |-> FALSE, int |-> FALSE, value |-> 0]

LocalSheetId(i) == [given |-> TRUE, int |-> TRUE, value |-> i]

BadLocalSheetId == [given |-> TRUE, int |-> FALSE, value |-> 0]

(***************************************************************************)
(* The defined names of the model: every scope (none, unparsable, each     *)
(* sheet index and one index past the last sheet) with every formula of a  *)
(* catalog.  A catalog entry is [text, refs]: the formula and the sheet    *)
(* names the pattern of line 197 finds in it.                              *)
(***************************************************************************)
CellRef == <<"A", "1">>

QuotedRef(i) == sheet_markers(SheetName(i)).quoted \o CellRef

Formulas(n) ==
    {[text |-> <<"4", "2">>, refs |-> {}]}
        \cup {[text |-> QuotedRef(i), refs |-> {SheetName(i)}] : i \in 1..n}
        \cup {[text |-> sheet_markers(SheetName(i)).unquoted \o CellRef,
               refs |-> {SheetName(i)}] : i \in (1..n) \ {2}}
        \cup {[text |-> QuotedRef(ij[1]) \o <<"+">> \o QuotedRef(ij[2]),
               refs |-> {SheetName(ij[1]), SheetName(ij[2])}] :
                  ij \in {ij \in (1..n) \X (1..n) : ij[1] < ij[2]}}
        \cup {[text |-> <<"'">> \o SheetName(1) \o <<" ", "'", "!">> \o CellRef,
               refs |-> {SheetName(1)}]}
        \cup {[text |-> SheetName(1) \o <<":">> \o SheetName(n) \o <<"!">>
                           \o CellRef,
               refs |-> {SheetName(n)}] : last \in {n} \ {1, 2}}

Scopes(n) ==
    {NoLocalSheetId, BadLocalSheetId} \cup {LocalSheetId(i) : i \in 0..n}

DefinedNames(n) ==
    {[name |-> "Area", localSheetId |-> scope, text |-> formula.text] :
        scope \in Scopes(n), formula \in Formulas(n)}

TypedParts(n, last_kind, feat) ==
    <<PackageWorkbookPath(feat)>>
        \o [i \in 1..n |-> SheetPart(KindOf(n, last_kind, i), i)]
        \o <<P_STYLES, P_CALC_CHAIN, P_EXT_LINK, P_DRAWING,
             P_PIVOT_TABLE, P_PIVOT_CACHE, P_APP>>

ContentTypes(typed, wbp) ==
    [i \in 1..Len(typed) |->
        [PartName |-> [slash |-> typed[i] # P_APP, segs |-> typed[i]],
         ContentType |-> IF typed[i] = wbp THEN WORKBOOK_CONTENT_TYPE
                         ELSE "other"]]

Package(n, last_kind, feat, names) ==
    [parts |-> {P_CONTENT_TYPES, PackageWorkbookPath(feat), P_APP, P_STYLES,
                P_CALC_CHAIN, P_EXT_LINK, P_DRAWING, P_IMAGE, P_PIVOT_TABLE,
                P_PIVOT_CACHE}
                   \cup {SheetPart(KindOf(n, last_kind, i), i) : i \in 1..n}
                   \cup DOMAIN PackageRels(n, last_kind, feat),
     rels |-> PackageRels(n, last_kind, feat),
     content_types |-> ContentTypes(TypedParts(n, last_kind, feat),
                                    PackageWorkbookPath(feat)),
     wb |-> [hasSheets |-> TRUE,
             sheets |-> [i \in 1..n |->
                            [name |-> SheetName(i), rid |-> RId(i),
                             sheetId |-> i, tabSelected |-> (i = n)]],
             hasNames |-> names # <<>>,
             names |-> names],
     app |-> [worksheets |-> n, titles |-> [i \in 1..n |-> SheetName(i)]]]

(***************************************************************************)
(* split_xlsx as a state machine: Open is lines 450-486, BuildChunk one    *)
(* iteration of the loop of lines 488-540, Finish the return of line 542.  *)
(***************************************************************************)
\* Line 524: f"{input_path.stem}_part_{part_idx:02d}.xlsx".
Format02d(i) == IF i < 10 THEN <<"0">> \o Digits(i) ELSE Digits(i)

out_path(input_stem, i) ==
    input_stem \o <<"_", "p", "a", "r", "t", "_">> \o Format02d(i)
        \o <<".", "x", "l", "s", "x">>

Stems == {<<"w", "b">>, <<"7", "_", "Q">>}

\* The conversion has not started.
ConvertIdle ==
    /\ cpc = "idle"
    /\ source = None
    /\ sheet_excels = <<>>
    /\ idx = 0
    /\ attempt = 0
    /\ last_exception = None
    /\ events = <<>>
    /\ result = None
    /\ merger = <<>>
    /\ pdf_dir = <<>>
    /\ combined = None

\* batch_convert_excel has not started.
BatchIdle ==
    /\ bpc = "idle"
    /\ deep = FALSE
    /\ MAX_SHEETS_PER_SPLIT = 0
    /\ openpyxl = FALSE
    /\ chunk_start = 0
    /\ output_dir = <<>>
    /\ all_sheet_files = <<>>
    /\ individual_pdfs = <<>>
    /\ calls = <<>>
    /\ sheet_idx = 1
    /\ combined_path = None

\* _convert_excel_document has not started.
DocumentIdle ==
    /\ dpc = "idle"
    /\ LOOL_ENABLED = FALSE
    /\ LOOL_FALLBACK_TO_LOCAL = FALSE
    /\ last_exc = None
    /\ pdf_path = None
    /\ engines = <<>>

\* No request has been served by this process, and convert_office_to_pdf
\* has not been called.
RequestsIdle ==
    /\ request = 1
    /\ LATEST_DEBUG_ARTIFACTS = None
    /\ base_dir = None
    /\ debug_dir = None

OfficeIdle ==
    /\ opc = "idle"
    /\ ext = ".xlsx"
    /\ office_outdir = None
    /\ office_result = None
    /\ office_files = {}

InitSplit(packages) ==
    /\ pkg \in packages
    /\ max_sheets \in 0..MaxPerChunk
    /\ stem \in Stems
    /\ pc = "start"
    /\ workbook_path = None
    /\ sheets = <<>>
    /\ part_idx = 1
    /\ outputs = <<>>
    /\ sheets_dir = <<>>
    /\ service = "unreliable"
    /\ retry_attempts = MaxAttempts
    /\ ConvertIdle
    /\ BatchIdle
    /\ DocumentIdle
    /\ RequestsIdle
    /\ OfficeIdle

GraphPackages ==
    {Package(n, last_kind, feat, <<>>) :
        n \in 1..MaxSheets, last_kind \in SheetKinds, feat \in SUBSET Features}

Init == InitSplit(GraphPackages)

\* Lines 472-481, given the result of load_workbook_path.
open_workbook(src, wb_path) ==
    IF wb_path = None \/ wb_path \notin src.parts
          \/ relationship_part_path(wb_path) \notin src.parts
    THEN [err |-> TRUE, sheets |-> <<>>]
    ELSE load_sheet_infos(src.wb, wb_path,
                          src.rels[relationship_part_path(wb_path)])

\* open_package reading the manifest without lines 467-468.
open_package_unchecked(src, size) ==
    IF size < 1
    THEN [err |-> TRUE, sheets |-> <<>>]
    ELSE open_workbook(src, load_workbook_path(src.content_types))

\* Lines 455-481: [err, sheets].
open_package(src, size) ==
    IF size < 1 \/ P_CONTENT_TYPES \notin src.parts
    THEN [err |-> TRUE, sheets |-> <<>>]
    ELSE open_workbook(src, load_workbook_path(src.content_types))

Opened(opened) ==
    /\ pc' = IF opened.err THEN "error" ELSE "chunks"
    /\ sheets' = opened.sheets
    /\ workbook_path' = IF opened.err THEN None
                        ELSE load_workbook_path(pkg.content_types)

Open ==
    /\ pc = "start"
    /\ Opened(open_package(pkg, max_sheets))
    /\ UNCHANGED <<pkg, max_sheets, part_idx, outputs, sheets_dir, stem>>
    /\ UNCHANGED <<cvars, ovars>>

\* Lines 524-537: the archive is written to out_path (replacing a file of
\* that name) and out_path is appended to outputs, unless building the
\* archive raised.
Built(built, path) ==
    IF built.err
    THEN pc' = "error" /\ UNCHANGED <<part_idx, outputs, sheets_dir>>
    ELSE /\ pc' = pc
         /\ part_idx' = part_idx + 1
         /\ outputs' = Append(outputs, [path |-> path] @@ built)
         /\ sheets_dir' = (path :> built) @@ sheets_dir

BuildChunk ==
    /\ pc = "chunks"
    /\ part_idx <= Len(chunked(sheets, max_sheets))
    /\ Built(build_chunk(pkg, workbook_path, chunked(sheets, max_sheets)[part_idx]),
             out_path(stem, part_idx))
    /\ UNCHANGED <<pkg, max_sheets, workbook_path, sheets, stem>>
    /\ UNCHANGED <<cvars, ovars>>

Finish ==
    /\ pc = "chunks"
    /\ part_idx > Len(chunked(sheets, max_sheets))
    /\ pc' = "done"
    /\ UNCHANGED <<pkg, max_sheets, workbook_path, sheets, part_idx, outputs,
                   sheets_dir, stem>>
    /\ UNCHANGED <<cvars, ovars>>

Next == Open \/ BuildChunk \/ Finish

Spec == Init /\ [][Next]_vars

\* The same program on workbooks that hold a defined name.
NamePackages ==
    {Package(n, "worksheets", {}, <<defined_name>>) :
        n \in 1..MaxSheets, defined_name \in DefinedNames(MaxSheets)}

InitNames == InitSplit(NamePackages)

SpecNames == InitNames /\ [][Next]_vars

(***************************************************************************)
(* convert_parts_combine.py: find_sheet_excels.  A file name is a sequence *)
(* of characters; Python compares strings by code point.                   *)
(***************************************************************************)
DigitChars == {"0", "1", "2", "3", "4", "5", "6", "7", "8", "9"}

DigitValue(c) == CHOOSE d \in 0..9 : DigitChar(d) = c

\* ord(c) for the characters of the model's file names.
CodePoint(c) ==
    CASE c \in DigitChars -> 48 + DigitValue(c)
      [] c = " " -> 32
      [] c = "-" -> 45
      [] c = "." -> 46
      [] c = "Q" -> 81
      [] c = "_" -> 95
      [] c = "a" -> 97
      [] c = "b" -> 98
      [] c = "l" -> 108
      [] c = "p" -> 112
      [] c = "q" -> 113
      [] c = "r" -> 114
      [] c = "s" -> 115
      [] c = "t" -> 116
      [] c = "w" -> 119
      [] c = "x" -> 120

\* str.lower()
lower(fname) ==
    [i \in 1..Len(fname) |-> IF fname[i] = "Q" THEN "q" ELSE fname[i]]

\* a < b for two strings.
RECURSIVE StrLess(_, _)
StrLess(a, b) ==
    IF b = <<>> THEN FALSE
    ELSE IF a = <<>> THEN TRUE
    ELSE IF a[1] # b[1] THEN CodePoint(a[1]) < CodePoint(b[1])
    ELSE StrLess(Tail(a), Tail(b))

\* The length of the run of digits fname starts with.
RECURSIVE DigitRun(_)
DigitRun(fname) ==
    IF fname # <<>> /\ fname[1] \in DigitChars THEN 1 + DigitRun(Tail(fname))
    ELSE 0

\* int(digits)
RECURSIVE ParseInt(_)
ParseInt(digits) ==
    IF digits = <<>> THEN 0
    ELSE 10 * ParseInt(Front(digits)) + DigitValue(Last(digits))

\* Line 14, given the length of the leading digit run: the pattern is a
\* non-empty digit run followed by "_", "-" or white space.
prefix_key(fname, run) ==
    IF run > 0 /\ run < Len(fname) /\ fname[run + 1] \in {"_", "-", " "}
    THEN <<ParseInt(SubSeq(fname, 1, run)), lower(fname)>>
    ELSE <<10^9, lower(fname)>>

sort_key_by_prefix(fname) == prefix_key(fname, DigitRun(fname))

\* k1 < k2 for two (int, str) tuples.
KeyLess(k1, k2) ==
    k1[1] < k2[1] \/ (k1[1] = k2[1] /\ StrLess(k1[2], k2[2]))

\* list.sort(key=...): the keys of distinct file names are distinct, so
\* a file's place is the number of files whose key is smaller.
ranked(files) ==
    {[name |-> f.name,
      rank |-> Cardinality({g \in files : KeyLess(g.key, f.key)})] :
        f \in files}

sorted_names(by_rank) ==
    [i \in 1..Cardinality(by_rank) |->
        (CHOOSE f \in by_rank : f.rank = i - 1).name]

\* p.suffix.lower() == ".xlsx"
IsXlsx(fname) ==
    /\ Len(fname) > 5
    /\ lower(SubSeq(fname, Len(fname) - 4, Len(fname)))
           = <<".", "x", "l", "s", "x">>

find_sheet_excels(sheet_dir) ==
    sorted_names(ranked({[name |-> fname, key |-> sort_key_by_prefix(fname)] :
                            fname \in {f \in DOMAIN sheet_dir : IsXlsx(f)}}))

(***************************************************************************)
(* service/lool_client.py and rag_core/conversion/lool_client.py:          *)
(* LoolClient.count_sheets and the rendering service.  A page is           *)
(* [path, sheet]: the file it was rendered from and the sheet it shows.    *)
(***************************************************************************)
\* count_sheets reads xl/workbook.xml; -1 stands for its ValueError.
count_sheets(archive) ==
    IF P_WORKBOOK \in Range(archive.entries) THEN Len(archive.workbook.sheets)
    ELSE -1

PagesOf(path, names) ==
    [q \in 1..Len(names) |-> [path |-> path, sheet |-> names[q]]]

Without(names, j) == SubSeq(names, 1, j - 1) \o SubSeq(names, j + 1, Len(names))

Twice(names, j) == SubSeq(names, 1, j) \o SubSeq(names, j, Len(names))

\* The PDFs the service may answer with: one page per sheet, or, for an
\* unreliable service, a sheet left out or a sheet spread over two pages.
\* (A failing service answers one page per sheet or not at all.)
Renderings(path, names) ==
    {PagesOf(path, names)}
        \cup (IF service # "unreliable" THEN {}
              ELSE {PagesOf(path, Without(names, j)) : j \in 1..Len(names)}
                      \cup {PagesOf(path, Twice(names, j)) : j \in 1..Len(names)})

\* The requests.RequestException subclasses: transport failure, status.
RequestExceptions == {"ConnectionError", "HTTPError"}

\* A client that sleeps after every failed attempt.
retry_after_always(failed_attempt, attempts) == failed_attempt < attempts

\* Line 233: whether the failed attempt is followed by time.sleep.
retry_after(failed_attempt, attempts) == failed_attempt < attempts - 1

(***************************************************************************)
(* convert_sheets_and_combine, with LoolClient.convert_all_sheets inlined  *)
(* at the granularity of its requests and sleeps.  cpc is "idle", "loop"   *)
(* (at the head of the for loop), "attempt" (at the head of the retry      *)
(* loop), "sleep" (in the except clause, before time.sleep), "done" or     *)
(* "raised" (an exception left convert_sheets_and_combine).                *)
(***************************************************************************)
\* The default of LoolClient's retry_attempts parameter.
RETRY_ATTEMPTS == 3

\* The callers' lists: split_xlsx's return value, or find_sheet_excels of
\* the sheets directory.
Sources == {"outputs", "sheets_dir"}

listed(from) ==
    IF from = "outputs" THEN [i \in 1..Len(outputs) |-> outputs[i].path]
    ELSE find_sheet_excels(sheets_dir)

\* Lines 38-43.
Started(files) ==
    /\ sheet_excels' = files
    /\ idx' = 1
    /\ merger' = <<>>
    /\ cpc' = IF files = <<>> THEN "raised" ELSE "loop"

StartConvert ==
    /\ pc = "done"
    /\ cpc = "idle"
    /\ \E from \in Sources : source' = from /\ Started(listed(from))
    /\ UNCHANGED <<service, retry_attempts, attempt, last_exception, events,
                   result, pdf_dir, combined>>
    /\ UNCHANGED <<svars, ovars>>

\* convert_all_sheets up to its retry loop, given count_sheets' result.
Counted(sheet_count) ==
    IF sheet_count <= 0
    THEN /\ cpc' = "raised"
         /\ result' = [kind |-> "raised",
                       exc |-> [type |-> "ValueError", attempt |-> -1]]
    ELSE /\ cpc' = "attempt"
         /\ result' = None

\* Lines 45-47 of convert_sheets_and_combine and the prologue of
\* convert_all_sheets.
NextFile ==
    /\ cpc = "loop"
    /\ idx <= Len(sheet_excels)
    /\ Counted(count_sheets(sheets_dir[sheet_excels[idx]]))
    /\ attempt' = 0
    /\ last_exception' = None
    /\ events' = <<>>
    /\ UNCHANGED <<service, source, retry_attempts, sheet_excels, idx, merger,
                   pdf_dir, combined>>
    /\ UNCHANGED <<svars, ovars>>

Posted(outcome) ==
    Append(events, [kind |-> "post", attempt |-> attempt, outcome |-> outcome])

\* session.post or raise_for_status raises a RequestException.
PostFails ==
    /\ cpc = "attempt"
    /\ attempt < retry_attempts
    /\ service = "unreliable"
    /\ \E exc \in RequestExceptions :
           /\ events' = Posted(exc)
           /\ last_exception' = [type |-> exc, attempt |-> attempt]
    /\ IF retry_after(attempt, retry_attempts)
       THEN cpc' = "sleep" /\ attempt' = attempt
       ELSE cpc' = "attempt" /\ attempt' = attempt + 1
    /\ UNCHANGED <<service, source, retry_attempts, sheet_excels, idx, result,
                   merger, pdf_dir, combined>>
    /\ UNCHANGED <<svars, ovars>>

\* time.sleep(self.retry_delay), then the next iteration.
Sleep ==
    /\ cpc = "sleep"
    /\ events' = Append(events, [kind |-> "sleep", attempt |-> attempt,
                                 outcome |-> "slept"])
    /\ attempt' = attempt + 1
    /\ cpc' = "attempt"
    /\ UNCHANGED <<service, source, retry_attempts, sheet_excels, idx,
                   last_exception, result, merger, pdf_dir, combined>>
    /\ UNCHANGED <<svars, ovars>>

\* The retry loop is exhausted: raise last_exception (raising None is a
\* TypeError).  Nothing in convert_sheets_and_combine catches it.
RaiseLast ==
    /\ cpc = "attempt"
    /\ attempt >= retry_attempts
    /\ result' = [kind |-> "raised",
                  exc |-> IF last_exception = None
                          THEN [type |-> "TypeError", attempt |-> -1]
                          ELSE last_exception]
    /\ cpc' = "raised"
    /\ UNCHANGED <<service, source, retry_attempts, sheet_excels, idx, attempt,
                   last_exception, events, merger, pdf_dir, combined>>
    /\ UNCHANGED <<svars, ovars>>

\* A response of success status whose body PdfReader cannot read: the
\* error is no RequestException and leaves both functions.
PostNotPdf ==
    /\ cpc = "attempt"
    /\ attempt < retry_attempts
    /\ service = "unreliable"
    /\ events' = Posted("not_pdf")
    /\ result' = [kind |-> "raised",
                  exc |-> [type |-> "PdfReadError", attempt |-> attempt]]
    /\ cpc' = "raised"
    /\ UNCHANGED <<service, source, retry_attempts, sheet_excels, idx, attempt,
                   last_exception, merger, pdf_dir, combined>>
    /\ UNCHANGED <<svars, ovars>>

\* Lines 50-68 of convert_sheets_and_combine, given the pages of the PDF
\* convert_all_sheets returned.
Combined(path, pages) ==
    /\ result' = [kind |-> "returned", pages |-> pages]
    /\ pdf_dir' = IF pages = <<>> THEN pdf_dir
                  ELSE (path :> <<pages[1]>>) @@ pdf_dir
    /\ merger' = merger \o pages

\* A client for which a page count other than the sheet count is an error.
returns_pdf_strict(actual_pages, sheet_count) == actual_pages = sheet_count

\* Lines 220-229: whether convert_all_sheets returns the PDF it has read;
\* line 222 only logs a page count that differs from the sheet count.
returns_pdf(actual_pages, sheet_count) == TRUE

\* The rest of the try block and of the loop body, given the response's pages.
Answered(path, pages) ==
    IF returns_pdf(Len(pages), count_sheets(sheets_dir[path]))
    THEN /\ Combined(path, pages)
         /\ idx' = idx + 1
         /\ cpc' = "loop"
    ELSE /\ result' = [kind |-> "raised",
                       exc |-> [type |-> "ValueError", attempt |-> attempt]]
         /\ cpc' = "raised"
         /\ UNCHANGED <<idx, merger, pdf_dir>>

\* A response of success status with a PDF: convert_all_sheets returns
\* it, and the loop body appends its pages.
PostSucceeds ==
    /\ cpc = "attempt"
    /\ attempt < retry_attempts
    /\ events' = Posted("pdf")
    /\ \E pages \in Renderings(sheet_excels[idx],
                    NamesOf(sheets_dir[sheet_excels[idx]].workbook.sheets)) :
           Answered(sheet_excels[idx], pages)
    /\ UNCHANGED <<service, source, retry_attempts, sheet_excels, attempt,
                   last_exception, combined>>
    /\ UNCHANGED <<svars, ovars>>

\* Lines 70-76.
WriteCombined ==
    /\ cpc = "loop"
    /\ idx > Len(sheet_excels)
    /\ combined' = merger
    /\ cpc' = "done"
    /\ UNCHANGED <<service, source, retry_attempts, sheet_excels, idx, attempt,
                   last_exception, events, result, merger, pdf_dir>>
    /\ UNCHANGED <<svars, ovars>>

PlainPackages == {Package(n, "worksheets", {}, <<>>) : n \in 1..MaxSheets}

\* Split and conversion of small workbooks by an unreliable service.
InitConvert ==
    /\ pkg \in PlainPackages
    /\ max_sheets \in 1..MaxPerChunk
    /\ stem \in Stems
    /\ pc = "start"
    /\ workbook_path = None
    /\ sheets = <<>>
    /\ part_idx = 1
    /\ outputs = <<>>
    /\ sheets_dir = <<>>
    /\ service = "unreliable"
    /\ retry_attempts \in 0..MaxAttempts
    /\ ConvertIdle
    /\ BatchIdle
    /\ DocumentIdle
    /\ RequestsIdle
    /\ OfficeIdle

\* Split of a workbook into MaxParts archives and their conversion by a
\* service that answers every request with one page per sheet.
InitManyParts ==
    /\ pkg = Package(MaxParts, "worksheets", {}, <<>>)
    /\ max_sheets = 1
    /\ stem = <<"w", "b">>
    /\ pc = "start"
    /\ workbook_path = None
    /\ sheets = <<>>
    /\ part_idx = 1
    /\ outputs = <<>>
    /\ sheets_dir = <<>>
    /\ service = "exact"
    /\ retry_attempts = RETRY_ATTEMPTS
    /\ ConvertIdle
    /\ BatchIdle
    /\ DocumentIdle
    /\ RequestsIdle
    /\ OfficeIdle

NextConvert ==
    \/ Open \/ BuildChunk \/ Finish
    \/ StartConvert \/ NextFile \/ PostFails \/ Sleep \/ RaiseLast
    \/ PostNotPdf \/ PostSucceeds \/ WriteCombined

SpecConvert == InitConvert /\ [][NextConvert]_vars

InitOrder == InitConvert \/ InitManyParts

SpecOrder == InitOrder /\ [][NextConvert]_vars

(***************************************************************************)
(* batch_convert.py: batch_convert_excel and the functions it calls.  The  *)
(* workbook is pkg, a package xl/workbook.xml of which can be read, so     *)
(* that count_sheets and get_sheet_names agree; excel_path is its file.    *)
(* A convert_all_sheets call is one step here: it returns the pages of a   *)
(* PDF or raises.  bpc is "idle", "start", "single" (_split_excel_single), *)
(* "chunked" (head of _split_excel_chunked's loop), "try" (the temporary   *)
(* file is saved, the try statement not yet entered), "sheets" (head of    *)
(* the per-sheet loop), "combine" (line 338), "done" or "raised".          *)
(***************************************************************************)
\* Line 112: the sheet count above which the workbook is converted in chunks.
LARGE_WORKBOOK == 50

\* A selection that already converts a workbook of LARGE_WORKBOOK sheets in
\* chunks.
use_chunked_from(sheet_count) == sheet_count >= LARGE_WORKBOOK

\* Line 112: `if sheet_count > 50`.
use_chunked(sheet_count) == sheet_count > LARGE_WORKBOOK

\* config.py line 25: the default of MAX_SHEETS_PER_SPLIT.
DEFAULT_MAX_SHEETS == 10

\* The chunk size of the large workbooks of the model.
LargeChunk == 25

Letters ==
    {"A", "B", "C", "D", "E", "F", "G", "H", "I", "J", "K", "L", "M", "N", "O",
     "P", "Q", "R", "S", "T", "U", "V", "W", "X", "Y", "Z", "a", "b", "c", "d",
     "e", "f", "g", "h", "i", "j", "k", "l", "m", "n", "o", "p", "q", "r", "s",
     "t", "u", "v", "w", "x", "y", "z"}

isalnum(c) == c \in DigitChars \cup Letters

sanitize_filename(name) ==
    [i \in 1..Len(name) |->
        IF isalnum(name[i]) \/ name[i] \in {".", "_", "-"} THEN name[i] ELSE "_"]

Format03d(i) ==
    IF i < 10 THEN <<"0", "0">> \o Digits(i)
    ELSE IF i < 100 THEN <<"0">> \o Digits(i)
    ELSE Digits(i)

\* f"{n:03d}_{safe_name}.pdf"
pdf_filename(n, sheet_name) ==
    Format03d(n) \o <<"_">> \o sanitize_filename(sheet_name)
        \o <<".", "p", "d", "f">>

\* Line 212: f"temp_chunk_{k}.xlsx"
temp_chunk_file(k) == <<"temp_chunk_">> \o Digits(k) \o <<".xlsx">>

excel_path == stem \o <<".", "x", "l", "s", "x">>

get_sheet_names == NamesOf(pkg.wb.sheets)

\* Line 181: max(1, MAX_SHEETS_PER_SPLIT).
chunk_size(configured) == IF configured < 1 THEN 1 ELSE configured

\* Line 190: chunk_start // chunk_size + 1.
chunk_number == chunk_start \div chunk_size(MAX_SHEETS_PER_SPLIT) + 1

\* Lines 187-188.
chunk_sheets ==
    SubSeq(get_sheet_names, chunk_start + 1,
           Min(chunk_start + chunk_size(MAX_SHEETS_PER_SPLIT),
               Len(get_sheet_names)))

\* How a convert_all_sheets call on the file at path can end.
call_outcomes(path, names) ==
    {[kind |-> "returned", pages |-> rendered] :
        rendered \in Renderings(path, names)}
        \cup (IF service = "exact" THEN {}
              ELSE {[kind |-> "raised", pages |-> <<>>]})

Call(on, failed) == [on |-> on, failed |-> failed]

\* The per-sheet PDFs the page loops write, as [file, page]: page i of the
\* PDF goes to the i-th name, as far as both exist.
extracted(first, names, rendered) ==
    [i \in 1..Min(Len(rendered), Len(names)) |->
        [file |-> pdf_filename(first + i, names[i]), page |-> rendered[i]]]

FilesOf(files) == [i \in 1..Len(files) |-> files[i].file]

\* A page loop that starts every chunk with an emptied directory.
with_files_only(folder, files) ==
    [f \in Range(FilesOf(files)) \cup {f \in DOMAIN folder : f[1] = "temp_chunk_"} |->
        IF f \in Range(FilesOf(files))
        THEN <<files[CHOOSE i \in 1..Len(files) : files[i].file = f].page>>
        ELSE folder[f]]

\* The directory after each file of files has been written.
with_files(folder, files) ==
    [f \in DOMAIN folder \cup Range(FilesOf(files)) |->
        IF f \in Range(FilesOf(files))
        THEN <<files[CHOOSE i \in 1..Len(files) : files[i].file = f].page>>
        ELSE folder[f]]

\* A cleanup that runs only when the try block ended without an exception.
unlink_on_success(folder, file, raised) ==
    IF raised THEN folder ELSE [f \in DOMAIN folder \ {file} |-> folder[f]]

\* Lines 249-252: the finally clause.
unlink(folder, file, raised) == [f \in DOMAIN folder \ {file} |-> folder[f]]

\* Lines 170-183 of _split_excel_chunked; made is the calls so far.
EnterChunked(made) ==
    /\ calls' = made
    /\ chunk_start' = 0
    /\ all_sheet_files' = <<>>
    /\ IF openpyxl THEN bpc' = "chunked" /\ UNCHANGED individual_pdfs
       ELSE bpc' = "combine" /\ individual_pdfs' = <<>>

\* batch_convert_excel lines 270-291 and split_excel_into_sheets.
BatchStart ==
    /\ bpc = "start"
    /\ IF deep /\ use_chunked(Len(pkg.wb.sheets))
       THEN EnterChunked(calls)
       ELSE /\ bpc' = IF deep THEN "single" ELSE "sheets"
            /\ UNCHANGED <<calls, chunk_start, all_sheet_files, individual_pdfs>>
    /\ UNCHANGED <<deep, MAX_SHEETS_PER_SPLIT, openpyxl, output_dir, sheet_idx,
                   combined_path>>
    /\ UNCHANGED <<svars, cvars, dvars, rvars, fvars>>

\* _split_excel_single, given how convert_all_sheets ended.
SingleDone(files, raised) ==
    IF raised
    THEN /\ EnterChunked(Append(calls, Call("workbook", TRUE)))
         /\ UNCHANGED output_dir
    ELSE /\ output_dir' = with_files(output_dir, files)
         /\ individual_pdfs' = FilesOf(files)
         /\ calls' = Append(calls, Call("workbook", FALSE))
         /\ bpc' = "combine"
         /\ UNCHANGED <<chunk_start, all_sheet_files>>

SingleShot ==
    /\ bpc = "single"
    /\ \E o \in call_outcomes(excel_path, get_sheet_names) :
           SingleDone(extracted(0, get_sheet_names, o.pages),
                      o.kind = "raised")
    /\ UNCHANGED <<deep, MAX_SHEETS_PER_SPLIT, openpyxl, sheet_idx,
                   combined_path>>
    /\ UNCHANGED <<svars, cvars, dvars, rvars, fvars>>

\* Lines 186-213: the temporary workbook of the next chunk is saved.
SaveChunk ==
    /\ bpc = "chunked"
    /\ chunk_start < Len(pkg.wb.sheets)
    /\ output_dir' = (temp_chunk_file(chunk_number) :> [sheets |-> chunk_sheets])
                         @@ output_dir
    /\ bpc' = "try"
    /\ UNCHANGED <<deep, MAX_SHEETS_PER_SPLIT, openpyxl, chunk_start,
                   all_sheet_files, individual_pdfs, calls, sheet_idx,
                   combined_path>>
    /\ UNCHANGED <<svars, cvars, dvars, rvars, fvars>>

\* Lines 215-252, given how convert_all_sheets ended.
ChunkDone(files, raised) ==
    /\ calls' = Append(calls, Call("chunk", raised))
    /\ output_dir' = unlink(with_files(output_dir, files),
                            temp_chunk_file(chunk_number), raised)
    /\ all_sheet_files' = all_sheet_files \o FilesOf(files)
    /\ chunk_start' = chunk_start + chunk_size(MAX_SHEETS_PER_SPLIT)
    /\ bpc' = "chunked"

ConvertChunk ==
    /\ bpc = "try"
    /\ \E o \in call_outcomes(temp_chunk_file(chunk_number),
                              output_dir[temp_chunk_file(chunk_number)].sheets) :
           ChunkDone(extracted(chunk_start, chunk_sheets, o.pages),
                     o.kind = "raised")
    /\ UNCHANGED <<deep, MAX_SHEETS_PER_SPLIT, openpyxl, individual_pdfs,
                   sheet_idx, combined_path>>
    /\ UNCHANGED <<svars, cvars, dvars, rvars, fvars>>

\* Lines 254-255.
ChunkedReturn ==
    /\ bpc = "chunked"
    /\ chunk_start >= Len(pkg.wb.sheets)
    /\ individual_pdfs' = all_sheet_files
    /\ bpc' = "combine"
    /\ UNCHANGED <<deep, MAX_SHEETS_PER_SPLIT, openpyxl, chunk_start, output_dir,
                   all_sheet_files, calls, sheet_idx, combined_path>>
    /\ UNCHANGED <<svars, cvars, dvars, rvars, fvars>>

\* convert_sheet, or the extraction of lines 316-332: the page of sheet n
\* out of the pages of the whole workbook, if the call returned that many.
page_of(o, n) ==
    IF o.kind = "returned" /\ n <= Len(o.pages)
    THEN <<[file |-> pdf_filename(n, get_sheet_names[n]), page |-> o.pages[n]]>>
    ELSE <<>>

\* Lines 295-336 for one sheet: first is how convert_sheet's call ended,
\* second how the call of line 316 ended (made only when convert_sheet
\* raised).
SheetDone(first, second) ==
    /\ output_dir' = with_files(output_dir,
                         IF first # <<>> THEN first ELSE second)
    /\ individual_pdfs' = individual_pdfs
                              \o FilesOf(IF first # <<>> THEN first ELSE second)
    /\ calls' = IF first # <<>> THEN Append(calls, Call("sheet", FALSE))
                ELSE calls \o <<Call("sheet", TRUE),
                                Call("workbook", second = <<>>)>>

ConvertSheet ==
    /\ bpc = "sheets"
    /\ \E o1, o2 \in call_outcomes(excel_path, get_sheet_names) :
           SheetDone(page_of(o1, sheet_idx), page_of(o2, sheet_idx))
    /\ sheet_idx' = sheet_idx + 1
    /\ bpc' = IF sheet_idx >= Len(pkg.wb.sheets) THEN "combine" ELSE "sheets"
    /\ UNCHANGED <<deep, MAX_SHEETS_PER_SPLIT, openpyxl, chunk_start,
                   all_sheet_files, combined_path>>
    /\ UNCHANGED <<svars, cvars, dvars, rvars, fvars>>

\* Lines 338-376: the first page of every individual PDF, in list order.
Combine ==
    /\ bpc = "combine"
    /\ IF individual_pdfs = <<>>
       THEN bpc' = "raised" /\ UNCHANGED combined_path
       ELSE /\ bpc' = "done"
            /\ combined_path' = [i \in 1..Len(individual_pdfs) |->
                                    output_dir[individual_pdfs[i]][1]]
    /\ UNCHANGED <<deep, MAX_SHEETS_PER_SPLIT, openpyxl, chunk_start, output_dir,
                   all_sheet_files, individual_pdfs, calls, sheet_idx>>
    /\ UNCHANGED <<svars, cvars, dvars, rvars, fvars>>

\* split_xlsx is not running.
SplitIdle ==
    /\ max_sheets = 1
    /\ stem \in Stems
    /\ pc = "idle"
    /\ workbook_path = None
    /\ sheets = <<>>
    /\ part_idx = 1
    /\ outputs = <<>>
    /\ sheets_dir = <<>>
    /\ retry_attempts = RETRY_ATTEMPTS
    /\ ConvertIdle

BatchFresh ==
    /\ bpc = "start"
    /\ chunk_start = 0
    /\ output_dir = <<>>
    /\ all_sheet_files = <<>>
    /\ individual_pdfs = <<>>
    /\ calls = <<>>
    /\ sheet_idx = 1
    /\ combined_path = None

\* Small workbooks, every chunk size setting, an unreliable service.
InitBatchSmall ==
    /\ pkg \in PlainPackages
    /\ service = "unreliable"
    /\ deep \in BOOLEAN
    /\ IF deep
       THEN MAX_SHEETS_PER_SPLIT \in 0..MaxPerChunk /\ openpyxl \in BOOLEAN
       ELSE MAX_SHEETS_PER_SPLIT = DEFAULT_MAX_SHEETS /\ openpyxl = TRUE

\* Workbooks at and above the limit of line 112, a service that may fail.
InitBatchLarge ==
    /\ pkg \in {Package(n, "worksheets", {}, <<>>) :
                   n \in {LARGE_WORKBOOK, LARGE_WORKBOOK + 1}}
    /\ service = "failing"
    /\ deep = TRUE
    /\ MAX_SHEETS_PER_SPLIT = LargeChunk
    /\ openpyxl = TRUE

InitBatch ==
    /\ InitBatchSmall \/ InitBatchLarge
    /\ SplitIdle
    /\ BatchFresh
    /\ DocumentIdle
    /\ RequestsIdle
    /\ OfficeIdle

NextBatch ==
    \/ BatchStart \/ SingleShot \/ SaveChunk \/ ConvertChunk \/ ChunkedReturn
    \/ ConvertSheet \/ Combine

SpecBatch == InitBatch /\ [][NextBatch]_vars

(***************************************************************************)
(* The two conversion pipelines side by side: either the split archives    *)
(* are converted by convert_sheets_and_combine, or the workbook is         *)
(* converted by batch_convert_excel.                                       *)
(***************************************************************************)
InitPipelines == InitConvert \/ InitBatch

NextPipelines == NextConvert \/ NextBatch

SpecPipelines == InitPipelines /\ [][NextPipelines]_vars

(***************************************************************************)
(* rag_core/conversion/excel_to_pdf.py: _convert_excel_document on the     *)
(* workbook pkg.  A rendering engine is invoked in one step and returns    *)
(* pages or raises.  dpc is "idle", "start", "after_lool" (line 377),      *)
(* "debug" (line 389), "returned" or "raised".                             *)
(***************************************************************************)
\* A handler that never re-raises the failure of the remote renderer.
reraise_never(fallback_to_local) == FALSE

\* Lines 370-371: `if not config.LOOL_FALLBACK_TO_LOCAL: raise`.
reraise(fallback_to_local) == ~fallback_to_local

\* Lines 363-375, given the exception of _convert_excel_with_lool.
LoolFailed ==
    /\ last_exc' = [type |-> "Exception", attempt |-> 0]
    /\ dpc' = IF reraise(LOOL_FALLBACK_TO_LOCAL) THEN "raised" ELSE "after_lool"
    /\ UNCHANGED pdf_path

\* Lines 357-375.
ConvertWithLool ==
    /\ dpc = "start"
    /\ IF LOOL_ENABLED
       THEN /\ engines' = Append(engines, "lool")
            /\ \E o \in call_outcomes(excel_path, get_sheet_names) :
                   IF o.kind = "raised" THEN LoolFailed
                   ELSE /\ pdf_path' = [engine |-> "lool", pages |-> o.pages]
                        /\ dpc' = "after_lool"
                        /\ UNCHANGED last_exc
       ELSE /\ dpc' = "after_lool"
            /\ UNCHANGED <<engines, last_exc, pdf_path>>
    /\ UNCHANGED <<LOOL_ENABLED, LOOL_FALLBACK_TO_LOCAL>>
    /\ UNCHANGED <<svars, cvars, bvars, rvars, fvars>>

\* Lines 377-387: _excel_to_pdf_no_uno, the local soffice pipeline.
ConvertLocally ==
    /\ dpc = "after_lool"
    /\ IF pdf_path = None
       THEN /\ engines' = Append(engines, "soffice")
            /\ \E o \in call_outcomes(excel_path, get_sheet_names) :
                   IF o.kind = "raised"
                   THEN dpc' = "raised" /\ UNCHANGED pdf_path
                   ELSE /\ pdf_path' = [engine |-> "soffice", pages |-> o.pages]
                        /\ dpc' = "debug"
       ELSE /\ dpc' = "debug"
            /\ UNCHANGED <<engines, pdf_path>>
    /\ UNCHANGED <<LOOL_ENABLED, LOOL_FALLBACK_TO_LOCAL, last_exc>>
    /\ UNCHANGED <<svars, cvars, bvars, rvars, fvars>>

\* How _maybe_generate_debug_artifacts can go on from line 255: it has
\* returned before (imports unavailable, generation disabled, not an .xlsx:
\* ran is FALSE); split_xlsx raised before it made its directory, or
\* split_xlsx or convert_sheets_and_combine raised later (left: base_dir
\* is on disk again); or the combined PDF of the chunk conversions (made by
\* the remote renderer) was written.
debug_artifacts ==
    {[ran |-> FALSE, left |-> FALSE, made |-> FALSE, pages |-> <<>>],
     [ran |-> TRUE, left |-> FALSE, made |-> FALSE, pages |-> <<>>],
     [ran |-> TRUE, left |-> TRUE, made |-> FALSE, pages |-> <<>>]}
        \cup {[ran |-> TRUE, left |-> TRUE, made |-> TRUE, pages |-> rendered] :
                 rendered \in Renderings(<<"combined">>, get_sheet_names)}

\* The artifacts of a request: base_dir and the combined PDF in it.
Artifacts(n) == [request |-> n]

\* Lines 259-296 and 389-409: the globals are assigned when the combined
\* PDF was written, and it replaces the primary PDF when it can be copied.
DebugDone(art, copied) ==
    /\ base_dir' = IF ~art.ran THEN base_dir
                   ELSE IF art.left THEN Artifacts(request) ELSE None
    /\ LATEST_DEBUG_ARTIFACTS' = IF art.made THEN Artifacts(request)
                                 ELSE LATEST_DEBUG_ARTIFACTS
    /\ pdf_path' = IF art.made /\ copied
                   THEN [engine |-> "debug", pages |-> art.pages]
                   ELSE pdf_path
    /\ engines' = IF art.made THEN Append(engines, "debug") ELSE engines
    /\ dpc' = "returned"

\* Lines 389-409 with _maybe_generate_debug_artifacts (lines 233-296):
\* shutil.rmtree of an existing base_dir (lines 256-257) is outside every
\* try statement, so its exception leaves _convert_excel_document.
DebugArtifacts ==
    /\ dpc = "debug"
    /\ \E art \in debug_artifacts, rmtree_ok \in BOOLEAN, copied \in BOOLEAN :
           IF art.ran /\ base_dir # None /\ ~rmtree_ok
           THEN /\ dpc' = "raised"
                /\ UNCHANGED <<pdf_path, engines, base_dir,
                               LATEST_DEBUG_ARTIFACTS>>
           ELSE DebugDone(art, copied)
    /\ UNCHANGED <<LOOL_ENABLED, LOOL_FALLBACK_TO_LOCAL, last_exc>>
    /\ UNCHANGED <<request, debug_dir>>
    /\ UNCHANGED <<svars, cvars, bvars, fvars>>

\* A directory an earlier process left under SPLIT_OUTPUT_ROOT.
LeftBehind == Artifacts(0)

InitDocument ==
    /\ pkg \in PlainPackages
    /\ service = "unreliable"
    /\ SplitIdle
    /\ BatchIdle
    /\ dpc = "start"
    /\ LOOL_ENABLED \in BOOLEAN
    /\ LOOL_FALLBACK_TO_LOCAL \in BOOLEAN
    /\ last_exc = None
    /\ pdf_path = None
    /\ engines = <<>>
    /\ request = 1
    /\ LATEST_DEBUG_ARTIFACTS = None
    /\ base_dir \in {None, LeftBehind}
    /\ debug_dir = None
    /\ OfficeIdle

NextDocument == ConvertWithLool \/ ConvertLocally \/ DebugArtifacts

SpecDocument == InitDocument /\ [][NextDocument]_vars

(***************************************************************************)
(* app/main.py: a request handler calls convert_excel_to_pdf (which calls  *)
(* _convert_excel_document) and then, if that returned, asks for the       *)
(* latest debug artifacts.  Requests are served one after the other by     *)
(* one process; every request is for the workbook pkg.                     *)
(***************************************************************************)
MaxRequests == 2

\* get_latest_debug_artifacts_dir / get_latest_debug_combined_pdf
\* (lines 412-423), as main.py calls them at lines 169-170.
GetLatest ==
    /\ dpc = "returned"
    /\ debug_dir' = LATEST_DEBUG_ARTIFACTS
    /\ dpc' = "observed"
    /\ UNCHANGED <<LOOL_ENABLED, LOOL_FALLBACK_TO_LOCAL, last_exc, pdf_path,
                   engines, request, LATEST_DEBUG_ARTIFACTS, base_dir>>
    /\ UNCHANGED <<svars, cvars, bvars, fvars>>

\* The next request enters _convert_excel_document (lines 357-358).
NewRequest ==
    /\ dpc \in {"observed", "raised"}
    /\ request < MaxRequests
    /\ request' = request + 1
    /\ dpc' = "start"
    /\ last_exc' = None
    /\ pdf_path' = None
    /\ engines' = <<>>
    /\ debug_dir' = None
    /\ UNCHANGED <<LOOL_ENABLED, LOOL_FALLBACK_TO_LOCAL,
                   LATEST_DEBUG_ARTIFACTS, base_dir>>
    /\ UNCHANGED <<svars, cvars, bvars, fvars>>

NextRequests == NextDocument \/ GetLatest \/ NewRequest

SpecRequests == InitDocument /\ [][NextRequests]_vars

(***************************************************************************)
(* convert_office_to_pdf (lines 425-471).  opc is "idle", "start", "excel" *)
(* (inside _convert_excel_document) or "returned".  A file on disk is      *)
(* [dir, name].                                                            *)
(***************************************************************************)
EXCEL_EXTENSIONS == {".xlsx", ".xls"}

OFFICE_EXTENSIONS == EXCEL_EXTENSIONS \cup {".docx", ".doc", ".pptx", ".ppt"}

\* Lines 436-446: the directory the PDF is written to.
office_dir(given) == IF given = None THEN <<"tmp">> ELSE given

\* Line 446: office_outdir / f"{input_path.stem}.pdf".
office_pdf(given) ==
    [dir |-> office_dir(given), name |-> stem \o <<".", "p", "d", "f">>]

input_file == [dir |-> <<"uploads">>, name |-> stem \o <<ext>>]

\* Lines 468-471: the finally clause removes the temporary directory.
cleanup(files, given) ==
    IF given = None THEN {f \in files : f.dir # <<"tmp">>} ELSE files

\* Lines 455-471: the return statements and the finally clause.
OfficeReturned(converted) ==
    /\ office_result' = IF converted
                        THEN [path |-> office_pdf(office_outdir), ok |-> TRUE]
                        ELSE [path |-> input_file, ok |-> FALSE]
    /\ office_files' = cleanup(IF converted
                               THEN office_files \cup {office_pdf(office_outdir)}
                               ELSE office_files,
                               office_outdir)
    /\ opc' = "returned"

\* Lines 425-453: an unsupported extension is returned at once; an Excel
\* file goes to _convert_excel_document; another Office file is converted
\* by soffice, which succeeds or raises.
OfficeStart ==
    /\ opc = "start"
    /\ IF ext \notin OFFICE_EXTENSIONS
       THEN /\ office_result' = [path |-> input_file, ok |-> FALSE]
            /\ opc' = "returned"
            /\ UNCHANGED <<office_files, dpc>>
       ELSE IF ext \in EXCEL_EXTENSIONS
            THEN /\ opc' = "excel"
                 /\ dpc' = "start"
                 /\ UNCHANGED <<office_result, office_files>>
            ELSE /\ \E converted \in BOOLEAN : OfficeReturned(converted)
                 /\ UNCHANGED dpc
    /\ UNCHANGED <<ext, office_outdir>>
    /\ UNCHANGED <<LOOL_ENABLED, LOOL_FALLBACK_TO_LOCAL, last_exc, pdf_path,
                   engines>>
    /\ UNCHANGED <<svars, cvars, bvars, rvars>>

\* Lines 449-471 once _convert_excel_document has returned or raised.
OfficeReturn ==
    /\ opc = "excel"
    /\ dpc \in {"returned", "raised"}
    /\ OfficeReturned(dpc = "returned")
    /\ UNCHANGED <<ext, office_outdir>>
    /\ UNCHANGED dvars
    /\ UNCHANGED <<svars, cvars, bvars, rvars>>

InitOffice ==
    /\ pkg \in PlainPackages
    /\ service = "unreliable"
    /\ SplitIdle
    /\ BatchIdle
    /\ dpc = "idle"
    /\ LOOL_ENABLED \in BOOLEAN
    /\ LOOL_FALLBACK_TO_LOCAL \in BOOLEAN
    /\ last_exc = None
    /\ pdf_path = None
    /\ engines = <<>>
    /\ request = 1
    /\ LATEST_DEBUG_ARTIFACTS = None
    /\ base_dir \in {None, LeftBehind}
    /\ debug_dir = None
    /\ opc = "start"
    /\ ext \in {".xlsx", ".docx", ".txt"}
    /\ office_outdir \in {None, <<"out">>}
    /\ office_result = None
    /\ office_files = {}

NextOffice == OfficeStart \/ NextDocument \/ OfficeReturn

SpecOffice == InitOffice /\ [][NextOffice]_vars

(***************************************************************************)
(* split_xlsx on packages that are damaged in one place:                   *)
(*   noManifest       [Content_Types].xml is absent                        *)
(*   noOverride       the manifest declares no workbook part               *)
(*   noWorkbook       the declared workbook part is absent                 *)
(*   noWorkbookRels   the workbook's relationship part is absent           *)
(*   noSheetsElement  the workbook has no <sheets> element                 *)
(*   noRid            sheet j has no r:id attribute                        *)
(*   danglingRid      sheet j's r:id names no relationship                 *)
(*   sheetMissing     the part of sheet j is absent                        *)
(*   rootMissing      _rels/.rels points to docProps/core.xml, absent      *)
(*   workbookMissing  the workbook points to xl/styles.xml, absent         *)
(*   nestedMissing    sheet 1 points to xl/drawings/drawing2.xml, absent   *)
(***************************************************************************)
Defects ==
    {"noManifest", "noOverride", "noWorkbook", "noWorkbookRels",
     "noSheetsElement", "noRid", "danglingRid", "sheetMissing", "rootMissing",
     "workbookMissing", "nestedMissing"}

Damaged(p, defect, j) ==
    CASE defect = "noManifest" -> [p EXCEPT !.parts = @ \ {P_CONTENT_TYPES}]
      [] defect = "noOverride" ->
            [p EXCEPT !.content_types =
                [i \in 1..Len(@) |-> [@[i] EXCEPT !.ContentType = "other"]]]
      [] defect = "noWorkbook" -> [p EXCEPT !.parts = @ \ {P_WORKBOOK}]
      [] defect = "noWorkbookRels" ->
            [p EXCEPT !.parts = @ \ {relationship_part_path(P_WORKBOOK)}]
      [] defect = "noSheetsElement" ->
            [p EXCEPT !.wb.hasSheets = FALSE, !.wb.sheets = <<>>]
      [] defect = "noRid" -> [p EXCEPT !.wb.sheets[j].rid = ""]
      [] defect = "danglingRid" -> [p EXCEPT !.wb.sheets[j].rid = "rIdGone"]
      [] defect = "sheetMissing" ->
            [p EXCEPT !.parts = @ \ {SheetPart("worksheets", j)}]
      [] defect = "rootMissing" ->
            [p EXCEPT !.rels[P_ROOT_RELS] = Append(@, Rel("rId3", P_CORE))]
      [] defect = "workbookMissing" -> [p EXCEPT !.parts = @ \ {P_STYLES}]
      [] OTHER -> p

\* Every defect on workbooks of 1..MaxSheets sheets, at sheet 1 or 2, and
\* the undamaged workbooks.
DamagedPackages ==
    UNION {{Damaged(Package(n, "worksheets",
                            IF defect = "nestedMissing" THEN {"missing"} ELSE {},
                            <<>>),
                    defect, j) :
               defect \in Defects, j \in 1..Min(n, 2)} : n \in 1..MaxSheets}
        \cup PlainPackages

InitMalformed == InitSplit(DamagedPackages)

SpecMalformed == InitMalformed /\ [][Next]_vars

(***************************************************************************)
(* Runs of split_xlsx one after the other on the same workbook and output  *)
(* root, with any max_sheets: the locals start afresh, the sheets          *)
(* directory is what the earlier runs left (lines 460-461 create it if it  *)
(* does not exist and remove nothing).                                     *)
(***************************************************************************)
Rerun ==
    /\ pc \in {"done", "error"}
    /\ cpc = "idle"
    /\ max_sheets' \in 0..MaxPerChunk
    /\ pc' = "start"
    /\ workbook_path' = None
    /\ sheets' = <<>>
    /\ part_idx' = 1
    /\ outputs' = <<>>
    /\ UNCHANGED <<pkg, sheets_dir, stem>>
    /\ UNCHANGED <<cvars, ovars>>

NextRerun == Next \/ Rerun

InitRerun == InitSplit(PlainPackages)

SpecRerun == InitRerun /\ [][NextRerun]_vars

(***************************************************************************)
(* split_xlsx on packages whose relationship graph has cycles and parts    *)
(* reachable along several paths.  Sheet 1 points to the drawing and,      *)
(* directly, to the drawing's image; the drawing points back:              *)
(*   self    to itself                                                     *)
(*   pair    to sheet 1                                                    *)
(*   triple  to sheet 2, which points to sheet 1                           *)
(***************************************************************************)
Cycles == {"self", "pair", "triple"}

P_SHEET1 == SheetPart("worksheets", 1)

P_SHEET2 == SheetPart("worksheets", 2)

BackRels(cycle) ==
    IF cycle = "self" THEN <<Rel("rId7", <<"drawing1.xml">>)>>
    ELSE IF cycle = "pair"
         THEN <<Rel("rId7", <<"..", "worksheets", "sheet1.xml">>)>>
         ELSE <<Rel("rId7", <<"..", "worksheets", "sheet2.xml">>)>>

Cyclic(p, cycle) ==
    [p EXCEPT
        !.parts = IF cycle = "triple" /\ P_SHEET2 \in p.parts
                  THEN @ \cup {relationship_part_path(P_SHEET2)} ELSE @,
        !.rels =
            (IF cycle = "triple" /\ P_SHEET2 \in p.parts
             THEN relationship_part_path(P_SHEET2)
                      :> <<Rel("rId1", <<"sheet1.xml">>)>>
             ELSE <<>>)
            @@ (relationship_part_path(P_DRAWING)
                   :> (@[relationship_part_path(P_DRAWING)] \o BackRels(cycle)))
            @@ (relationship_part_path(P_SHEET1)
                   :> (@[relationship_part_path(P_SHEET1)]
                          \o <<Rel("rId8", <<"..", "media", "image1.png">>)>>))
            @@ @]

CyclicPackages ==
    {Cyclic(Package(n, "worksheets", {}, <<>>), cycle) :
        n \in 1..MaxSheets, cycle \in Cycles}

InitCyclic == InitSplit(CyclicPackages)

SpecCyclic == InitCyclic /\ [][Next]_vars

(***************************************************************************)
(* Properties of split_xlsx.  outputs[i] is the i-th archive written:      *)
(* its chunk, entries, written set, relationship parts, workbook, manifest.*)
(***************************************************************************)
SourceNames == [i \in 1..Len(pkg.wb.sheets) |-> pkg.wb.sheets[i].name]

ChunkNames(i) == NamesOf(outputs[i].chunk)

\* C1: when split_xlsx returns, it has produced ceil(N/k) chunks, each of
\* 1..k sheets; every source sheet is in exactly one chunk, and the chunks
\* concatenated in order are the source's sheet list.
C1_ChunkPartition ==
    pc = "done" =>
        /\ Len(outputs) = (Len(pkg.wb.sheets) + max_sheets - 1) \div max_sheets
        /\ \A i \in 1..Len(outputs) : Len(outputs[i].chunk) \in 1..max_sheets
        /\ \A n \in 1..Len(pkg.wb.sheets) :
               Cardinality({<<i, j>> \in (1..Len(outputs)) \X (1..max_sheets) :
                               /\ j <= Len(outputs[i].chunk)
                               /\ outputs[i].chunk[j].index = n - 1}) = 1
        /\ Flatten([i \in 1..Len(outputs) |-> ChunkNames(i)]) = SourceNames

\* A split of the largest workbook into uneven chunks has returned.
C1_Witness ==
    /\ pc = "done"
    /\ Len(pkg.wb.sheets) = MaxSheets
    /\ max_sheets = MaxPerChunk
    /\ Len(outputs) > 1
    /\ Len(outputs[Len(outputs)].chunk) < max_sheets

\* The internal targets of a written relationship part, resolved.
InternalTargets(part_rels) ==
    {normalize_target_path(part_rels.base, part_rels.rels[k].Target) :
        k \in {k \in 1..Len(part_rels.rels) :
                  part_rels.rels[k].TargetMode # "External"}} \ {None}

Closed(built) ==
    \A rels_path \in DOMAIN built.rels :
        InternalTargets(built.rels[rels_path]) \subseteq Range(built.entries)

\* C2: in every archive written, every internal relationship target of
\* every relationship part (_rels/.rels, the workbook's, those rewritten by
\* copy_part_tree) is a part of the same archive.
C2_Closure == \A i \in 1..Len(outputs) : Closed(outputs[i])

ReadWorkbook(built, wb_path) ==
    load_sheet_infos(built.workbook, wb_path,
                     built.rels[relationship_part_path(wb_path)].rels)

ReadBack(built) == ReadWorkbook(built, load_workbook_path(built.content_types))

\* C6: reading back the sheet list of every archive written gives the names
\* of its chunk, in order.
C6_RoundTrip ==
    \A i \in 1..Len(outputs) :
        /\ ~ReadBack(outputs[i]).err
        /\ NamesOf(ReadBack(outputs[i]).sheets) = ChunkNames(i)

\* A later archive of several sheets, cut from a larger workbook, is read.
C6_Witness ==
    /\ Len(outputs) >= 2
    /\ Len(outputs[2].chunk) >= 2
    /\ Len(pkg.wb.sheets) > Len(outputs[2].chunk)
    /\ NamesOf(ReadBack(outputs[2]).sheets) = ChunkNames(2)

\* The source sheets that are not in the chunk of an archive.
RemovedSheets(built) ==
    {sheets[n] : n \in 1..Len(sheets)} \ Range(built.chunk)

\* C7: no archive holds the sheet part of a sheet outside its chunk, and
\* its workbook relationships hold no relationship to such a sheet.
C7_OnlyOwnSheets ==
    \A i \in 1..Len(outputs) :
        \A removed \in RemovedSheets(outputs[i]) :
            /\ removed.target \notin Range(outputs[i].entries)
            /\ removed.target \notin InternalTargets(
                   outputs[i].rels[relationship_part_path(outputs[i].wb_path)])

(***************************************************************************)
(* Properties of the defined names of the archives (SpecNames).            *)
(***************************************************************************)
\* The sheet names the formula references, by the catalog.
ExpectedRefs(text) ==
    (CHOOSE formula \in Formulas(MaxSheets) : formula.text = text).refs

\* The defined names that are locally scoped to a sheet of the source.
LocalNames ==
    {pkg.wb.names[k] : k \in {k \in 1..Len(pkg.wb.names) :
        /\ pkg.wb.names[k].localSheetId.given
        /\ pkg.wb.names[k].localSheetId.int
        /\ pkg.wb.names[k].localSheetId.value \in 0..(Len(pkg.wb.sheets) - 1)}}

Survivors(built, defined_name) ==
    {built.workbook.names[k] : k \in {k \in 1..Len(built.workbook.names) :
        built.workbook.names[k].name = defined_name.name}}

InChunk(built, old_idx) ==
    \E j \in 1..Len(built.chunk) : built.chunk[j].index = old_idx

PositionIn(built, old_idx) ==
    (CHOOSE j \in 1..Len(built.chunk) : built.chunk[j].index = old_idx) - 1

Remapped(built, defined_name) ==
    \A kept \in Survivors(built, defined_name) :
        /\ kept.localSheetId.given
        /\ kept.localSheetId.value
               = PositionIn(built, defined_name.localSheetId.value)
        /\ kept.text = defined_name.text

\* C4 as stated: a name scoped to sheet i is in a chunk's workbook exactly
\* when sheet i is in the chunk, with localSheetId rewritten to the
\* position of sheet i in the chunk.
C4_LocalScopeOnly ==
    \A i \in 1..Len(outputs) : \A defined_name \in LocalNames :
        /\ Survivors(outputs[i], defined_name) # {}
               <=> InChunk(outputs[i], defined_name.localSheetId.value)
        /\ Remapped(outputs[i], defined_name)

\* C4 amended: a name scoped to sheet i is in a chunk's workbook exactly
\* when sheet i is in the chunk and every sheet name its formula references
\* is a sheet of the chunk; when present, its localSheetId is the position
\* of sheet i in the chunk.
C4_LocalScopeAndRefs ==
    \A i \in 1..Len(outputs) : \A defined_name \in LocalNames :
        /\ Survivors(outputs[i], defined_name) # {}
               <=> /\ InChunk(outputs[i], defined_name.localSheetId.value)
                   /\ ExpectedRefs(defined_name.text)
                          \subseteq Range(ChunkNames(i))
        /\ Remapped(outputs[i], defined_name)

\* A name that references sheets and is scoped to a sheet that is not the
\* first of a later chunk has survived there, its index rewritten.
C4_Witness ==
    /\ Len(outputs) >= 2
    /\ \E defined_name \in LocalNames :
           /\ Survivors(outputs[2], defined_name) # {}
           /\ ExpectedRefs(defined_name.text) # {}
           /\ PositionIn(outputs[2], defined_name.localSheetId.value) > 0

ScopeInChunk(built, localSheetId) ==
    \/ ~localSheetId.given
    \/ localSheetId.int /\ InChunk(built, localSheetId.value)

C8_PageAccounting ==
    cpc = "done" =>
        /\ Len(combined) = Len(pkg.wb.sheets)
        /\ \A p \in 1..Len(combined) : combined[p].sheet = SourceNames[p]

\* The part number of the archive a file name was written for.
PartNumber(path) == CHOOSE i \in 1..Len(outputs) : outputs[i].path = path

\* C9: in the combined PDF under construction, every page of chunk i comes
\* before every page of chunk j when i < j (the part numbers of the pages
\* never decrease), whether the files come from split_xlsx's return value
\* or from find_sheet_excels.
C9_CombinedOrder ==
    \A p \in 1..(Len(merger) - 1) :
        PartNumber(merger[p].path) <= PartNumber(merger[p + 1].path)

Posts == SelectSeq(events, LAMBDA e : e.kind = "post")

Failed(e) == e.kind = "post" /\ e.outcome \in RequestExceptions

PostsUpTo(j) == Cardinality({i \in 1..j : events[i].kind = "post"})

\* C10: in every call of convert_all_sheets, requests and sleeps alternate,
\* starting with a request; a sleep follows a failed request only, and
\* never the retry_attempts-th request; nothing follows a response of
\* success status, and the call returns its PDF; at most retry_attempts
\* requests are issued; when all of them failed, the call raises the
\* failure of the last one.
C10_RetryProtocol ==
    /\ Len(Posts) <= retry_attempts
    /\ \A j \in 1..Len(events) :
           /\ j = 1 => events[j].kind = "post"
           /\ events[j].kind = "sleep" =>
                  /\ j > 1
                  /\ Failed(events[j - 1])
                  /\ PostsUpTo(j) < retry_attempts
           /\ j < Len(events) =>
                  /\ events[j].kind = "post" =>
                         Failed(events[j]) /\ events[j + 1].kind = "sleep"
                  /\ events[j].kind = "sleep" => events[j + 1].kind = "post"
    /\ (events # <<>> /\ Last(events).outcome = "pdf") =>
           result # None /\ result.kind = "returned"
    /\ (result # None /\ result.kind = "returned") =>
           events # <<>> /\ Last(events).outcome = "pdf"
    /\ (result # None /\ result.kind = "raised"
            /\ result.exc.type \in RequestExceptions) =>
           /\ Len(Posts) = retry_attempts
           /\ Failed(Last(events))
           /\ result.exc = [type |-> Last(events).outcome,
                            attempt |-> retry_attempts - 1]
    /\ (/\ retry_attempts > 0
        /\ Len(Posts) = retry_attempts
        /\ Failed(Last(events))
        /\ cpc # "attempt") =>
           /\ result # None
           /\ result.kind = "raised"
           /\ result.exc.type = Last(events).outcome

\* A call has raised after MaxAttempts failed requests with a sleep between
\* each two, following a call that returned at its second request.
C10_Witness ==
    /\ retry_attempts = MaxAttempts
    /\ result # None
    /\ result.kind = "raised"
    /\ result.exc.type \in RequestExceptions
    /\ Len(events) = 2 * MaxAttempts - 1
    /\ idx > 1

(***************************************************************************)
(* Properties of the conversion's error handling.                          *)
(***************************************************************************)
\* C11: whenever the renderer answers a request with a PDF, whatever its
\* page count (in particular one that differs from the sheet count of the
\* submitted file), convert_all_sheets returns these pages without raising
\* and without another request, the pages are appended to the combined
\* writer, and the loop moves on to the next file.
C11_SoftMismatch ==
    [][(cpc = "attempt" /\ events' = Posted("pdf"))
          => /\ result'.kind = "returned"
             /\ cpc' = "loop"
             /\ idx' = idx + 1
             /\ sheet_excels' = sheet_excels
             /\ merger' = merger \o result'.pages]_vars

\* The first file came back with at least one page, but not one per sheet,
\* and the second file has been submitted.
C11_Witness ==
    /\ cpc = "attempt"
    /\ idx = 2
    /\ Len(merger) >= 1
    /\ Len(merger) # Len(sheets_dir[sheet_excels[1]].workbook.sheets)
    /\ events # <<>>

\* The retry loop of the current call is exhausted after a failed request.
Exhausted ==
    cpc = "attempt" /\ attempt >= retry_attempts /\ last_exception # None

\* C12: when the conversion of file i fails for good (every attempt failed),
\* the failure is caught: the loop moves on to file i+1 with the pages
\* collected so far, file i adding none.
C12_FailureIsolation ==
    [][Exhausted => /\ cpc' = "loop"
                    /\ idx' = idx + 1
                    /\ merger' = merger]_vars

\* C13: the conversion ends in failure only if no page was produced, and it
\* ends with a combined PDF only if that PDF has a page.
C13_TerminalOutcome ==
    /\ cpc = "raised" => merger = <<>>
    /\ cpc = "done" => combined # <<>>

(***************************************************************************)
(* Properties of batch_convert.py.                                         *)
(***************************************************************************)
WorkbookCalls == {i \in 1..Len(calls) : calls[i].on = "workbook"}

ChunkCalls == {i \in 1..Len(calls) : calls[i].on = "chunk"}

\* The files the pages of the individual PDFs were rendered from.
RenderedFrom == {output_dir[f][1].path : f \in Range(individual_pdfs)}

\* C14: in split_excel_into_sheets (deep mode), for a workbook of at most
\* LARGE_WORKBOOK sheets the first conversion is one of the whole workbook,
\* it is the only one of the whole workbook, and chunks are converted only
\* after it has failed; for a larger workbook no conversion of the whole
\* workbook is made; and the individual PDFs returned were all rendered
\* from the whole workbook or all from chunk files.
C14_StrategySelection ==
    deep =>
        /\ Len(pkg.wb.sheets) <= LARGE_WORKBOOK =>
              /\ bpc \notin {"start", "single"} =>
                    calls # <<>> /\ calls[1].on = "workbook"
              /\ (bpc \in {"chunked", "try"} \/ ChunkCalls # {}) =>
                    calls[1].failed
              /\ Cardinality(WorkbookCalls) <= 1
        /\ Len(pkg.wb.sheets) > LARGE_WORKBOOK =>
              WorkbookCalls = {} /\ bpc # "single"
        /\ \/ RenderedFrom \subseteq {excel_path}
           \/ excel_path \notin RenderedFrom
        /\ (RenderedFrom = {excel_path}) => ChunkCalls = {}

\* The single-shot conversion of a small workbook failed, and the chunked
\* conversion that followed produced the combined PDF.
C14_Witness ==
    /\ deep
    /\ Len(pkg.wb.sheets) <= LARGE_WORKBOOK
    /\ bpc = "done"
    /\ calls[1] = Call("workbook", TRUE)
    /\ \E i \in ChunkCalls : ~calls[i].failed
    /\ combined_path # <<>>

TempFiles == {f \in DOMAIN output_dir : f[1] = "temp_chunk_"}

\* C16: the only temp_chunk_* file that ever exists in the output directory
\* is the one of the chunk whose conversion call is about to be made; once
\* that call has completed, by returning or by raising, and from then on
\* until the next chunk is saved and after _split_excel_chunked returns,
\* there is none.
C16_TempFilesScoped ==
    /\ bpc # "try" => TempFiles = {}
    /\ bpc = "try" => TempFiles = {temp_chunk_file(chunk_number)}

\* _split_excel_chunked has returned after a chunk whose conversion raised
\* and a chunk whose conversion returned.
C16_Witness ==
    /\ bpc \in {"combine", "done"}
    /\ \E i \in ChunkCalls : calls[i].failed
    /\ \E i \in ChunkCalls : ~calls[i].failed
    /\ TempFiles = {}

\* C20: with a maximum-sheets-per-chunk setting below 1, _split_excel_chunked
\* saves and converts no chunk.
C20_InvalidSizeRejected ==
    MAX_SHEETS_PER_SPLIT < 1 => bpc # "try" /\ ChunkCalls = {}

(***************************************************************************)
(* Properties of _convert_excel_document.                                  *)
(***************************************************************************)
LocalInvoked == "soffice" \in Range(engines)

RemoteInvoked == "lool" \in Range(engines)

RemoteFailed == last_exc # None

\* C15: the local engine has been invoked only if the remote renderer is
\* disabled, or failed with local fallback enabled; in these two cases it
\* has been invoked once the function is past line 377; it is invoked at
\* most once; after a remote failure with fallback disabled the function
\* has raised without invoking the local engine; and after a remote success
\* the local engine is never invoked.
C15_TwoTierFallback ==
    /\ LocalInvoked =>
          ~LOOL_ENABLED \/ (RemoteFailed /\ LOOL_FALLBACK_TO_LOCAL)
    /\ (dpc \in {"debug", "returned", "raised"}
            /\ (~LOOL_ENABLED \/ (RemoteFailed /\ LOOL_FALLBACK_TO_LOCAL))) =>
          LocalInvoked
    /\ Cardinality({i \in 1..Len(engines) : engines[i] = "soffice"}) <= 1
    /\ (RemoteFailed /\ ~LOOL_FALLBACK_TO_LOCAL) =>
          dpc = "raised" /\ ~LocalInvoked
    /\ (RemoteInvoked /\ ~RemoteFailed) => ~LocalInvoked
    /\ RemoteInvoked => LOOL_ENABLED

\* The remote renderer failed, local fallback is enabled, and the local
\* engine produced the PDF.
C15_Witness ==
    /\ dpc = "debug"
    /\ LOOL_ENABLED
    /\ RemoteFailed
    /\ LOOL_FALLBACK_TO_LOCAL
    /\ engines = <<"lool", "soffice">>
    /\ pdf_path # None
    /\ pdf_path.engine = "soffice"

(***************************************************************************)
(* Properties of split_xlsx on damaged packages.                           *)
(***************************************************************************)
\* The workbook parts the manifest declares.
DeclaredWorkbooks ==
    {pkg.content_types[k].PartName.segs :
        k \in {k \in 1..Len(pkg.content_types) :
                  /\ pkg.content_types[k].ContentType = WORKBOOK_CONTENT_TYPE
                  /\ pkg.content_types[k].PartName.segs # <<>>}}

\* One of the structural errors of C17.
Structural ==
    \/ P_CONTENT_TYPES \notin pkg.parts
    \/ DeclaredWorkbooks = {}
    \/ \E w \in DeclaredWorkbooks :
           w \notin pkg.parts \/ relationship_part_path(w) \notin pkg.parts
    \/ ~pkg.wb.hasSheets

\* C17: for a source with one of the five structural errors split_xlsx
\* ends with an error as soon as it has looked at the package, and no chunk
\* archive is ever written.
C17_StructuralErrorsAbort ==
    Structural =>
        /\ pc \in {"start", "error"}
        /\ outputs = <<>>
        /\ sheets_dir = <<>>

\* split_xlsx, called with a valid max_sheets, has raised because the
\* workbook's relationship part is absent.
C17_Witness ==
    /\ pc = "error"
    /\ max_sheets >= 1
    /\ P_CONTENT_TYPES \in pkg.parts
    /\ P_WORKBOOK \in pkg.parts
    /\ relationship_part_path(P_WORKBOOK) \notin pkg.parts

\* The relationship ids of the workbook's relationship part.
WorkbookRelIds ==
    {pkg.rels[relationship_part_path(P_WORKBOOK)][k].Id :
        k \in 1..Len(pkg.rels[relationship_part_path(P_WORKBOOK)])}

\* A sheet element without a relationship id, or with one that names no
\* relationship.
Unlinked(sheet_el) == sheet_el.rid = "" \/ sheet_el.rid \notin WorkbookRelIds

\* C18: when some sheet element has no relationship id or an id without a
\* target, split_xlsx raises: it never goes on to build chunks.
C18_UnlinkedSheetFatal ==
    (~Structural /\ pc # "start"
        /\ \E k \in 1..Len(pkg.wb.sheets) : Unlinked(pkg.wb.sheets[k])) =>
        pc = "error"

\* The parts of the sheets, through the workbook's relationships.
SheetTargets ==
    {normalize_target_path(P_WORKBOOK,
                           pkg.rels[relationship_part_path(P_WORKBOOK)][k].Target) :
        k \in {k \in 1..Len(pkg.rels[relationship_part_path(P_WORKBOOK)]) :
                  pkg.rels[relationship_part_path(P_WORKBOOK)][k].Id
                      \in {pkg.wb.sheets[i].rid : i \in 1..Len(pkg.wb.sheets)}}}

\* The package can be read as a workbook and every entry point (the
\* workbook, each sheet's own part) is present.
EntryPointsPresent ==
    /\ ~Structural
    /\ \A k \in 1..Len(pkg.wb.sheets) : ~Unlinked(pkg.wb.sheets[k])
    /\ SheetTargets \subseteq pkg.parts

\* C19: when every entry point is present, split_xlsx does not fail,
\* whatever other parts the relationships of the source point to, and no
\* relationship part it writes keeps a relationship to a part that the
\* source lacks.
C19_AbsentTargetsDropped ==
    (EntryPointsPresent /\ max_sheets >= 1) =>
        /\ pc # "error"
        /\ \A i \in 1..Len(outputs) :
               \A rels_path \in DOMAIN outputs[i].rels :
                   InternalTargets(outputs[i].rels[rels_path])
                       \subseteq pkg.parts

(***************************************************************************)
(* Properties of the relationship parts rewritten by copy_part_tree.       *)
(***************************************************************************)
\* The relationship parts of an archive that copy_part_tree rewrote: all
\* but the package-level one and the workbook's.
RewrittenRels(built) ==
    DOMAIN built.rels \ {P_ROOT_RELS, relationship_part_path(built.wb_path)}

\* C21: in every archive written, no relationship part rewritten by
\* copy_part_tree holds a relationship with TargetMode External.
C21_ExternalDropped ==
    \A i \in 1..Len(outputs) :
        \A rels_path \in RewrittenRels(outputs[i]) :
            \A k \in 1..Len(outputs[i].rels[rels_path].rels) :
                outputs[i].rels[rels_path].rels[k].TargetMode # "External"

\* C22: no archive written holds a part that should_skip_part excludes,
\* and no relationship part of an archive (the package-level one included)
\* keeps a relationship to such a part.
C22_Exclusion ==
    \A i \in 1..Len(outputs) :
        /\ \A k \in 1..Len(outputs[i].entries) :
               ~should_skip_part(outputs[i].entries[k])
        /\ \A rels_path \in DOMAIN outputs[i].rels :
               \A target \in InternalTargets(outputs[i].rels[rels_path]) :
                   ~should_skip_part(target)

\* C23: in every archive written, copy_part_tree copied each source part
\* at most once, whatever cycles and joins the relationship graph has (and
\* every chunk build of such a package comes to an end).
C23_CopiedOnce ==
    \A i \in 1..Len(outputs) :
        /\ \A a, b \in 1..Len(outputs[i].copies) :
               outputs[i].copies[a] = outputs[i].copies[b] => a = b
        /\ Range(outputs[i].copies) \subseteq pkg.parts

\* The split of a package with a cycle through sheet 1 has finished, and
\* an archive whose chunk lacks sheet 1 holds it, the drawing and the
\* image that two parts point to: the walk went around the cycle.
C23_Witness ==
    /\ pc = "done"
    /\ Len(outputs) >= 2
    /\ \E i \in 1..Len(outputs) :
           /\ P_SHEET1 \notin {outputs[i].chunk[k].target :
                                  k \in 1..Len(outputs[i].chunk)}
           /\ {P_SHEET1, P_DRAWING, P_IMAGE} \subseteq Range(outputs[i].copies)

(***************************************************************************)
(* Properties of the PDF files of both pipelines.                          *)
(***************************************************************************)
\* Every file of the directory is in it after the step, with its content.
Kept(folder, folder_after) ==
    \A f \in DOMAIN folder :
        f \in DOMAIN folder_after /\ folder_after[f] = folder[f]

\* The PDF files of batch_convert's output directory.
PdfFiles(folder) == [f \in DOMAIN folder \ TempFiles |-> folder[f]]

\* C24: no step of either pipeline, a failing conversion and a failing
\* combination included, deletes or changes a per-chunk or per-sheet PDF
\* that is on disk.
C24_PartialResultsKept ==
    [][/\ Kept(pdf_dir, pdf_dir')
       /\ Kept(PdfFiles(output_dir), output_dir')]_vars

\* convert_sheets_and_combine has raised on a later archive, or the
\* chunked conversion has lost a later chunk, with the PDF of an earlier
\* one on disk.
C24_Witness ==
    \/ /\ cpc = "raised"
       /\ idx >= 2
       /\ sheet_excels[1] \in DOMAIN pdf_dir
    \/ /\ bpc = "done"
       /\ \E i \in ChunkCalls : calls[i].failed /\ i > 1 /\ ~calls[i - 1].failed
       /\ pdf_filename(1, get_sheet_names[1]) \in DOMAIN output_dir

(***************************************************************************)
(* Properties of the requests and of convert_office_to_pdf.                *)
(***************************************************************************)
\* C25: what a request gets from get_latest_debug_artifacts_dir after its
\* own conversion is nothing or the artifacts of that same request.
C25_OwnArtifactsOnly ==
    dpc = "observed" => debug_dir \in {None, Artifacts(request)}

\* C28: _convert_excel_document raises only when no primary PDF was
\* produced, returns a PDF otherwise, and returns the combined debug PDF
\* only when that was generated.
C28_DebugCannotFail ==
    /\ dpc = "raised" => pdf_path = None
    /\ dpc \in {"returned", "observed"} => pdf_path # None
    /\ (pdf_path # None /\ pdf_path.engine = "debug") =>
           "debug" \in Range(engines)

\* C29: convert_office_to_pdf returns the input path with False, or the
\* path of a PDF that is on disk once it has returned, with True.
C29_ReturnedPdfExists ==
    opc = "returned" =>
        IF office_result.ok THEN office_result.path \in office_files
        ELSE office_result.path = input_file

(***************************************************************************)
(* Properties of the per-chunk PDF files of convert_sheets_and_combine.    *)
(***************************************************************************)
\* convert_all_sheets has just returned a PDF with pages for the archive
\* before sheet_excels[idx].
JustConverted ==
    /\ cpc = "loop"
    /\ idx >= 2
    /\ result # None
    /\ result.kind = "returned"
    /\ result.pages # <<>>

\* C26: the PDF file written for an archive holds the pages the renderer
\* returned for it, which are the pages appended to the combined PDF.
C26_ChunkPdfComplete ==
    JustConverted =>
        /\ pdf_dir[sheet_excels[idx - 1]] = result.pages
        /\ SubSeq(merger, Len(merger) - Len(result.pages) + 1, Len(merger))
               = pdf_dir[sheet_excels[idx - 1]]

(***************************************************************************)
(* Properties of the workbook relationships of the archives.               *)
(***************************************************************************)
\* The relationships with the given id in a relationship part.
RelsWithId(rels, rid) == {rels[k] : k \in {k \in 1..Len(rels) : rels[k].Id = rid}}

WorkbookRelsOf(built) == built.rels[relationship_part_path(built.wb_path)].rels

\* C27: in every archive written, every sheet element of the workbook has
\* a relationship of its id in the archive's workbook relationship part,
\* with the target the source gives that id, and the target part is in
\* the archive.
C27_SheetLinksIntact ==
    \A i \in 1..Len(outputs) :
        \A k \in 1..Len(outputs[i].workbook.sheets) :
            /\ RelsWithId(WorkbookRelsOf(outputs[i]),
                          outputs[i].workbook.sheets[k].rid) # {}
            /\ RelsWithId(WorkbookRelsOf(outputs[i]),
                          outputs[i].workbook.sheets[k].rid)
                   = RelsWithId(pkg.rels[relationship_part_path(outputs[i].wb_path)],
                                outputs[i].workbook.sheets[k].rid)
            /\ \A rel \in RelsWithId(WorkbookRelsOf(outputs[i]),
                                     outputs[i].workbook.sheets[k].rid) :
                   normalize_target_path(outputs[i].wb_path, rel.Target)
                       \in Range(outputs[i].entries)

\* The second archive of a workbook cut into several: its workbook lists
\* fewer sheets than the source, and its relationship part lost the
\* relationships of the other sheets.
C27_Witness ==
    /\ Len(outputs) >= 2
    /\ Len(outputs[2].workbook.sheets) >= 1
    /\ Len(outputs[2].workbook.sheets) < Len(pkg.wb.sheets)
    /\ RelsWithId(WorkbookRelsOf(outputs[2]), pkg.wb.sheets[1].rid) = {}
    /\ RelsWithId(WorkbookRelsOf(outputs[2]),
                  outputs[2].workbook.sheets[1].rid) # {}

(***************************************************************************)
(* Properties of the sheets directory over several runs.                   *)
(***************************************************************************)
\* C30: when a run of split_xlsx has finished, the sheets directory holds
\* the archives of that run and no other, and find_sheet_excels lists
\* exactly them.
C30_NoStaleArchives ==
    pc = "done" =>
        /\ DOMAIN sheets_dir = {outputs[i].path : i \in 1..Len(outputs)}
        /\ Range(find_sheet_excels(sheets_dir))
               = {outputs[i].path : i \in 1..Len(outputs)}

====
